---- MODULE Spec2Model ----
(***************************************************************************)
(* Harvesting engine of the YouTube dashboard backend: the RateLimiter,    *)
(* the API-key pool of YouTubeCollector, make_api_request with its retry   *)
(* and rotation policy, and run_collection_job.                            *)
(*                                                                         *)
(* Time.  The code reads the clock with datetime.now(timezone.utc) and     *)
(* only ever compares stored instants with the current one.  The model     *)
(* keeps every stored instant RELATIVE to the current instant: `now' is 0, *)
(* a timestamp recorded d ticks ago is -d, and the passing of one tick     *)
(* (action Tick) shifts every stored instant by -1.  Instants that are     *)
(* already outside every window the code looks at stop at a floor.  Dates  *)
(* are kept the same way: `today_utc' is 0 and yesterday (or earlier) -1.  *)
(***************************************************************************)
EXTENDS Integers, Sequences, FiniteSets, TLC

\* ------------------------------------------------------------------ bounds
NumKeys == 2            \* len(self.api_keys) where the key pool is checked
LimiterKeys == 1        \* len(self.api_keys) where the rate limiter is checked
MaxRequestsBound == 2   \* RateLimiter.max_requests, scaled down
TimeWindowBound == 3    \* RateLimiter.time_window in ticks, scaled down
MaxUnits == 2           \* the free caller starts a request only below this
RunKeys == 1            \* len(self.api_keys) where the collection job is checked
MaxCanais == 1          \* the longest roster get_canais_for_collection returns
MaxPages == 0           \* search pages that carry a nextPageToken, per listing
MaxTasks == 3           \* background tasks of collect_data queued or running
MaxResults == 3         \* maxResults of the search request (50), scaled down
FetchKeys == 2          \* len(self.api_keys) where one fetch is followed
FetchPages == 1         \* search pages that carry a nextPageToken, per listing

\* ------------------------------------------------------- program constants
max_retries == 3
\* seconds slept before the retry of a request that timed out
TimeoutDelay == 5
SearchCost == 100
DefaultCost == 1
SafetyMargin == 1       \* the 0.5 s wait_if_needed adds, as one tick
ChannelIdLength == 24

NoKey == -1
max_requests == MaxRequestsBound
time_window == TimeWindowBound

Max(a, b) == IF a >= b THEN a ELSE b
Min(a, b) == IF a <= b THEN a ELSE b

\* datetime.now(timezone.utc) and datetime.now(timezone.utc).date()
now == 0
today_utc == 0
\* the oldest instant / date the model tells apart from older ones
StaleInstant == now - time_window - 1
PastDate == today_utc - 1

Urls == {"/search", "/channels"}
CanalNames == {"canal_a"}

VARIABLES
    api_keys,               \* len(self.api_keys)
    current_key_index,      \* self.current_key_index
    exhausted_keys_date,    \* self.exhausted_keys_date: key index -> date
    rate_limiters,          \* self.rate_limiters[i].requests, oldest first
    total_quota_units,      \* self.total_quota_units
    quota_units_per_key,    \* self.quota_units_per_key
    quota_units_per_canal,  \* self.quota_units_per_canal
    failed_canals,          \* self.failed_canals
    call,                   \* the running make_api_request, its locals
    fetch,                  \* the running get_canal_data / get_videos_data
    run,                    \* the running run_collection_job, its locals
    server,                 \* main.py's globals, its background tasks, scheduler
    listing                 \* get_channel_videos over its pages, its locals

Keys == 0 .. (api_keys - 1)

collector_vars == <<api_keys, current_key_index, exhausted_keys_date, rate_limiters,
                    total_quota_units, quota_units_per_key,
                    quota_units_per_canal, failed_canals>>
vars == <<api_keys, current_key_index, exhausted_keys_date, rate_limiters,
          total_quota_units, quota_units_per_key, quota_units_per_canal,
          failed_canals, call, fetch, run, server, listing>>
caller_vars == <<fetch, run, server, listing>>

\* ------------------------------------------------------------ RateLimiter
RECURSIVE clean_old_requests(_)
clean_old_requests(requests) ==
    LET cutoff == now - time_window
    IN  IF requests # <<>> /\ Head(requests) < cutoff
        THEN clean_old_requests(Tail(requests))
        ELSE requests

can_make_request(requests) ==
    Len(clean_old_requests(requests)) < max_requests

get_wait_time(requests) ==
    LET cleaned == clean_old_requests(requests)
    IN  IF Len(cleaned) < max_requests
        THEN 0
        ELSE LET oldest == Head(cleaned)
                 wait == (oldest + time_window) - now
             IN  Max(0, wait)

record_request(requests) ==
    Append(clean_old_requests(requests), now)

\* the duration wait_if_needed sleeps for (0: it returns at once)
wait_if_needed(requests) ==
    LET wait_time == get_wait_time(requests)
    IN  IF wait_time > 0 THEN wait_time + SafetyMargin ELSE 0

\* ------------------------------------------------------------ the key pool
all_keys_exhausted_in(exhausted) ==
    Cardinality(DOMAIN exhausted) >= api_keys

all_keys_exhausted == all_keys_exhausted_in(exhausted_keys_date)


\* mutant: the loop body never runs, the index is taken as it is
SkipExhausted_not_at_all(index, attempts, exhausted) ==
    [index |-> index, attempts |-> attempts]

\* while index in exhausted and attempts < len(api_keys): index += 1 (mod n)
RECURSIVE SkipExhausted(_, _, _)
SkipExhausted(index, attempts, exhausted) ==
    IF index \in DOMAIN exhausted /\ attempts < api_keys
    THEN SkipExhausted((index + 1) % api_keys, attempts + 1, exhausted)
    ELSE [index |-> index, attempts |-> attempts]

\* [key: the key returned or NoKey, index: current_key_index afterwards]
get_current_api_key(index, exhausted) ==
    IF all_keys_exhausted_in(exhausted)
    THEN [key |-> NoKey, index |-> index]
    ELSE LET s == SkipExhausted(index, 0, exhausted)
         IN  IF s.attempts >= api_keys
             THEN [key |-> NoKey, index |-> s.index]
             ELSE [key |-> s.index, index |-> s.index]


\* mutant: the search starts at the current key, not at the one after it
rotate_to_next_key_from_current(index, exhausted) ==
    SkipExhausted(index, 0, exhausted).index

\* current_key_index after rotate_to_next_key
rotate_to_next_key(index, exhausted) ==
    SkipExhausted((index + 1) % api_keys, 0, exhausted).index

\* mutant: rotates first and then marks the key it has rotated to
mark_key_as_exhausted_after_rotating(index, exhausted) ==
    LET rotated == rotate_to_next_key(index, exhausted)
    IN  [exhausted |-> [k \in DOMAIN exhausted \cup {rotated} |->
                           IF k = rotated THEN today_utc ELSE exhausted[k]],
         index |-> rotated]

\* [exhausted: the new exhausted_keys_date, index: the new current_key_index]
mark_key_as_exhausted(index, exhausted) ==
    LET marked == [k \in DOMAIN exhausted \cup {index} |->
                      IF k = index THEN today_utc ELSE exhausted[k]]
    IN  [exhausted |-> marked, index |-> rotate_to_next_key(index, marked)]


\* mutant: every request is taken to cost one unit
get_request_cost_uniform(url) == DefaultCost

get_request_cost(url) ==
    IF url = "/search" THEN SearchCost ELSE DefaultCost

\* --------------------------------------------------------- the upstream API
\* What one session.get can produce.  exc: the exception raised instead of a
\* response; items: a 200 body with a non-empty 'items'; msg / reason: the
\* keywords found in error.message and error.errors[0].reason of a 403 body.
MsgWords == {"quota", "ratelimit"}
ReasonWords == {"quota", "dailylimit", "ratelimit"}
\* next: the 200 body has a 'nextPageToken'.
Blank ==
    [status |-> 0, exc |-> "none", items |-> FALSE, next |-> FALSE,
     msg |-> {}, reason |-> {}]
Ok(items) == [Blank EXCEPT !.status = 200, !.items = items]
Forbidden(msg, reason) == [Blank EXCEPT !.status = 403, !.msg = msg, !.reason = reason]
Responses ==
    {Ok(i) : i \in BOOLEAN}
    \cup {Forbidden(m, r) : m \in SUBSET MsgWords, r \in SUBSET ReasonWords}
    \cup {[Blank EXCEPT !.status = 404], [Blank EXCEPT !.status = 500]}
    \cup {[Blank EXCEPT !.exc = "timeout"], [Blank EXCEPT !.exc = "error"]}

\* ------------------------------------------------------- make_api_request
\* The collector's fields and the locals of the running call, as one value.
IdleCall ==
    [pc |-> "idle", url |-> "", canal_name |-> "", retry_count |-> 0,
     key |-> NoKey, sleep |-> 0, delay |-> 0, result |-> "pending",
     history |-> <<>>]

NewCall(url, canal_name) ==
    [IdleCall EXCEPT !.pc = "enter", !.url = url, !.canal_name = canal_name]

Collector ==
    [index |-> current_key_index, exhausted |-> exhausted_keys_date,
     limiters |-> rate_limiters, total |-> total_quota_units,
     per_key |-> quota_units_per_key, per_canal |-> quota_units_per_canal,
     call |-> call, failed |-> failed_canals, fetch |-> fetch]


\* mutant: a key whose local counter reaches the cost of a search is taken
\* for exhausted
increment_quota_counter_with_threshold(S, canal_name, cost) ==
    [S EXCEPT
       !.total = @ + cost,
       !.per_key = [@ EXCEPT ![S.index] = @ + cost],
       !.per_canal = [c \in DOMAIN @ \cup {canal_name} |->
                        (IF c \in DOMAIN @ THEN @[c] ELSE 0)
                        + (IF c = canal_name THEN cost ELSE 0)],
       !.exhausted = IF S.per_key[S.index] + cost >= SearchCost
                     THEN mark_key_as_exhausted(S.index, @).exhausted
                     ELSE @]

\* mutant: the cost is not entered under the canal
increment_quota_counter_without_canal(S, canal_name, cost) ==
    [S EXCEPT
       !.total = @ + cost,
       !.per_key = [@ EXCEPT ![S.index] = @ + cost]]

increment_quota_counter(S, canal_name, cost) ==
    [S EXCEPT
       !.total = @ + cost,
       !.per_key = [@ EXCEPT ![S.index] = @ + cost],
       !.per_canal = [c \in DOMAIN @ \cup {canal_name} |->
                        (IF c \in DOMAIN @ THEN @[c] ELSE 0)
                        + (IF c = canal_name THEN cost ELSE 0)]]

Finish(S, result) ==
    [S EXCEPT !.call = [@ EXCEPT !.pc = "done", !.result = result]]

\* lines 282-289: debit the quota, record the request, sleep base_delay;
\* the request goes out when that sleep is over
SendBody(S) ==
    LET debited == increment_quota_counter(S, S.call.canal_name,
                                           get_request_cost(S.call.url))
    IN  [debited EXCEPT
           !.limiters = [@ EXCEPT ![S.index] = record_request(@)],
           !.call = [@ EXCEPT !.pc = "inflight", !.sleep = 1]]


\* mutant: attaches the current key and sends without looking at the pool
EnterBody_sends_anyway(S) ==
    SendBody([S EXCEPT !.call = [@ EXCEPT !.key = S.index]])

\* lines 269-279, and 282-289 when wait_if_needed does not sleep
EnterBody(S) ==
    IF all_keys_exhausted_in(S.exhausted)
    THEN Finish(S, "None")
    ELSE LET got == get_current_api_key(S.index, S.exhausted)
             picked == [S EXCEPT !.index = got.index]
         IN  IF got.key = NoKey
             THEN Finish(picked, "None")
             ELSE LET pause == wait_if_needed(S.limiters[got.index])
                      waited == [picked EXCEPT
                          !.call = [@ EXCEPT !.key = got.key],
                          !.limiters = [@ EXCEPT ![got.index] =
                                           clean_old_requests(@)]]
                  IN  IF pause > 0
                      THEN [waited EXCEPT
                              !.call = [@ EXCEPT !.pc = "rate_wait",
                                                 !.sleep = pause]]
                      ELSE SendBody(waited)

\* What the upstream answered, told by the answer alone: the record of a call
\* (call.history) keeps, for every request sent, the key attached and this.
Answer(resp) ==
    LET quota == "quota" \in resp.msg \cup resp.reason
                 \/ "dailylimit" \in resp.reason
        ratelimit == "ratelimit" \in resp.msg \cup resp.reason
    IN  CASE resp.exc = "timeout" -> "timeout"
          [] resp.exc = "error" -> "error"
          [] resp.status = 200 -> "ok"
          [] resp.status = 403 /\ quota /\ ~ratelimit -> "quota"
          [] resp.status = 403 /\ ~quota /\ ratelimit -> "ratelimit"
          [] resp.status = 403 /\ quota /\ ratelimit -> "quota+ratelimit"
          [] resp.status = 403 /\ ~quota /\ ~ratelimit -> "forbidden"
          [] OTHER -> "rejected"

Noted(S, resp) ==
    [S EXCEPT !.call = [@ EXCEPT
        !.history = Append(@, [key |-> S.call.key, answer |-> Answer(resp)])]]

\* mutant: the recursive call is made with the retry_count it was given
RetryAfterSleep_same_count(S, wait_time) ==
    [S EXCEPT !.call = [@ EXCEPT !.pc = "enter", !.sleep = 1,
                                 !.delay = wait_time]]

\* the recursive call after asyncio.sleep(wait_time): it starts when the
\* sleep is over; call.delay keeps the seconds asked for, call.sleep counts
\* the sleep down in ticks
RetryAfterSleep(S, wait_time) ==
    [S EXCEPT !.call = [@ EXCEPT !.pc = "enter", !.sleep = 1,
                                 !.delay = wait_time,
                                 !.retry_count = @ + 1]]

\* mutant: looks for 'limit' in the reason, which 'ratelimit' contains too
IsQuota_any_limit(resp) ==
    "quota" \in resp.msg \/ "quota" \in resp.reason
    \/ "dailylimit" \in resp.reason \/ "ratelimit" \in resp.reason


\* mutant: every 403 is taken for quota exhaustion
IsQuota_every_403(resp) == resp.status = 403

IsQuota(resp) ==
    "quota" \in resp.msg \/ "quota" \in resp.reason
    \/ "dailylimit" \in resp.reason

IsRateLimit(resp) ==
    "ratelimit" \in resp.msg \/ "ratelimit" \in resp.reason

\* mutant: a status other than 200 and 403 is retried like a timeout
RespondBody_retries_other_status(S, resp) ==
    CASE resp.exc = "timeout" ->
           IF S.call.retry_count < max_retries
           THEN RetryAfterSleep(Noted(S, resp), TimeoutDelay)
           ELSE Finish(Noted(S, resp), "None")
      [] resp.exc = "error" ->
           Finish(Noted(S, resp), "None")
      [] resp.exc = "none" /\ resp.status = 200 ->
           Finish(Noted(S, resp),
                  IF ~resp.items THEN "no_items"
                  ELSE IF resp.next THEN "items+next" ELSE "items")
      [] resp.exc = "none" /\ resp.status = 403 /\ IsQuota(resp) ->
           LET m == mark_key_as_exhausted(S.index, S.exhausted)
               marked == [Noted(S, resp) EXCEPT
                             !.exhausted = m.exhausted, !.index = m.index]
           IN  IF S.call.retry_count < max_retries
                  /\ ~all_keys_exhausted_in(m.exhausted)
               THEN EnterBody([marked EXCEPT
                       !.call = [@ EXCEPT !.retry_count = @ + 1]])
               ELSE Finish(marked, "None")
      [] resp.exc = "none" /\ resp.status = 403 /\ ~IsQuota(resp)
           /\ IsRateLimit(resp) ->
           IF S.call.retry_count < max_retries
           THEN RetryAfterSleep(Noted(S, resp),
                                (2 ^ S.call.retry_count) * 30)
           ELSE Finish(Noted(S, resp), "None")
      [] resp.exc = "none" /\ resp.status = 403 /\ ~IsQuota(resp)
           /\ ~IsRateLimit(resp) ->
           IF S.call.retry_count < max_retries
           THEN RetryAfterSleep(Noted(S, resp),
                                (2 ^ S.call.retry_count) * 15)
           ELSE Finish(Noted(S, resp), "None")
      [] OTHER ->
           IF S.call.retry_count < max_retries
           THEN RetryAfterSleep(Noted(S, resp), TimeoutDelay)
           ELSE Finish(Noted(S, resp), "None")

\* lines 291-352: what the call does with the outcome of session.get
RespondBody(S, resp) ==
    CASE resp.exc = "timeout" ->
           IF S.call.retry_count < max_retries
           THEN RetryAfterSleep(Noted(S, resp), TimeoutDelay)
           ELSE Finish(Noted(S, resp), "None")
      [] resp.exc = "error" ->
           Finish(Noted(S, resp), "None")
      [] resp.exc = "none" /\ resp.status = 200 ->
           Finish(Noted(S, resp),
                  IF ~resp.items THEN "no_items"
                  ELSE IF resp.next THEN "items+next" ELSE "items")
      [] resp.exc = "none" /\ resp.status = 403 /\ IsQuota(resp) ->
           LET m == mark_key_as_exhausted(S.index, S.exhausted)
               marked == [Noted(S, resp) EXCEPT
                             !.exhausted = m.exhausted, !.index = m.index]
           IN  IF S.call.retry_count < max_retries
                  /\ ~all_keys_exhausted_in(m.exhausted)
               THEN EnterBody([marked EXCEPT
                       !.call = [@ EXCEPT !.retry_count = @ + 1]])
               ELSE Finish(marked, "None")
      [] resp.exc = "none" /\ resp.status = 403 /\ ~IsQuota(resp)
           /\ IsRateLimit(resp) ->
           IF S.call.retry_count < max_retries
           THEN RetryAfterSleep(Noted(S, resp),
                                (2 ^ S.call.retry_count) * 30)
           ELSE Finish(Noted(S, resp), "None")
      [] resp.exc = "none" /\ resp.status = 403 /\ ~IsQuota(resp)
           /\ ~IsRateLimit(resp) ->
           IF S.call.retry_count < max_retries
           THEN RetryAfterSleep(Noted(S, resp),
                                (2 ^ S.call.retry_count) * 15)
           ELSE Finish(Noted(S, resp), "None")
      [] OTHER ->
           Finish(Noted(S, resp), "None")

Install(S) ==
    /\ current_key_index' = S.index
    /\ exhausted_keys_date' = S.exhausted
    /\ rate_limiters' = S.limiters
    /\ total_quota_units' = S.total
    /\ quota_units_per_key' = S.per_key
    /\ quota_units_per_canal' = S.per_canal
    /\ call' = S.call
    /\ UNCHANGED api_keys

\* a recursive call that follows a backoff sleep starts
Reenter ==
    /\ call.pc = "enter" /\ call.sleep = 0
    /\ Install(EnterBody(Collector))
    /\ UNCHANGED <<failed_canals, caller_vars>>

\* wait_if_needed's sleep is over: lines 282-289
AfterRateWait ==
    /\ call.pc = "rate_wait" /\ call.sleep = 0
    /\ Install(SendBody(Collector))
    /\ UNCHANGED <<failed_canals, caller_vars>>

\* base_delay is over, the request is sent and its outcome handled
Respond(resp) ==
    /\ call.pc = "inflight" /\ call.sleep = 0
    /\ Install(RespondBody(Collector, resp))
    /\ UNCHANGED <<failed_canals, caller_vars>>

\* ------------------------------------------------ reset_for_new_collection
\* mutant: <= where the code has <
keys_to_reset_today_too ==
    {k \in DOMAIN exhausted_keys_date : exhausted_keys_date[k] <= today_utc}

keys_to_reset ==
    {k \in DOMAIN exhausted_keys_date : exhausted_keys_date[k] < today_utc}

\* mutant: the rate limiters start afresh with every collection
reset_for_new_collection_with_limiters ==
    /\ failed_canals' = {}
    /\ total_quota_units' = 0
    /\ quota_units_per_key' = [i \in Keys |-> 0]
    /\ quota_units_per_canal' = << >>
    /\ exhausted_keys_date' =
           [k \in DOMAIN exhausted_keys_date \ keys_to_reset |->
               exhausted_keys_date[k]]
    /\ rate_limiters' = [i \in Keys |-> << >>]
    /\ UNCHANGED <<api_keys, current_key_index>>

reset_for_new_collection ==
    /\ failed_canals' = {}
    /\ total_quota_units' = 0
    /\ quota_units_per_key' = [i \in Keys |-> 0]
    /\ quota_units_per_canal' = << >>
    /\ exhausted_keys_date' =
           [k \in DOMAIN exhausted_keys_date \ keys_to_reset |->
               exhausted_keys_date[k]]
    /\ UNCHANGED <<api_keys, current_key_index, rate_limiters>>

\* ------------------------------------------------------------ the clock
Shifted(requests, d) ==
    [i \in DOMAIN requests |-> Max(requests[i] - d, StaleInstant)]

\* the collector and the running call d ticks later
Later(S, d) ==
    [S EXCEPT !.limiters = [k \in DOMAIN @ |-> Shifted(@[k], d)],
              !.call = [@ EXCEPT !.sleep = Max(@ - d, 0)]]

\* d ticks pass
Advance(d) ==
    /\ rate_limiters' = Later(Collector, d).limiters
    /\ call' = Later(Collector, d).call
    /\ UNCHANGED <<api_keys, current_key_index, exhausted_keys_date,
                   total_quota_units, quota_units_per_key,
                   quota_units_per_canal, failed_canals, caller_vars>>

\* one tick passes
Tick == Advance(1)

\* a whole rate window and its margin pass
Elapse == Advance(time_window + SafetyMargin)

\* UTC midnight passes
Midnight ==
    /\ exhausted_keys_date' = [k \in DOMAIN exhausted_keys_date |->
                                  Max(exhausted_keys_date[k] - 1, PastDate)]
    /\ UNCHANGED <<api_keys, current_key_index, rate_limiters,
                   total_quota_units, quota_units_per_key,
                   quota_units_per_canal, failed_canals, call, caller_vars>>

\* ------------------------------------------- a caller of make_api_request
\* The requests of a collection in any number and order: the collector is
\* reset when the collection starts, every canal starts with
\* rotate_to_next_key (get_canal_data), and requests follow one by one.
NoIdent == [head |-> "", len |-> 0]
NoUrl == [route |-> "", ident |-> NoIdent, tail |-> ""]

IdleFetch ==
    [pc |-> "idle", purpose |-> "", url |-> NoUrl, canal_name |-> "",
     channel_id |-> NoIdent, page |-> 0, next |-> FALSE, videos |-> FALSE,
     result |-> "pending"]
IdleRun ==
    [pc |-> "idle", keys_to_reset |-> {}, roster |-> <<>>, index |-> 0,
     canais_sucesso |-> 0, canais_erro |-> 0, broke |-> FALSE,
     raised |-> FALSE, status |-> "", coleta |-> <<>>,
     mensagem_erro |-> FALSE, log |-> <<>>]

CallerReset ==
    /\ run.pc = "idle"
    /\ reset_for_new_collection
    /\ run' = [run EXCEPT !.pc = "reset", !.keys_to_reset = keys_to_reset]
    /\ UNCHANGED <<call, fetch>>
    /\ UNCHANGED <<server, listing>>

CallerCanal(canal_name) ==
    /\ run.pc \in {"reset", "loop"} /\ fetch.pc = "idle"
    /\ ~all_keys_exhausted
    /\ current_key_index' =
           rotate_to_next_key(current_key_index, exhausted_keys_date)
    /\ fetch' = [fetch EXCEPT !.pc = "canal", !.canal_name = canal_name]
    /\ run' = [IdleRun EXCEPT !.pc = "loop"]
    /\ UNCHANGED <<api_keys, exhausted_keys_date, rate_limiters,
                   total_quota_units, quota_units_per_key,
                   quota_units_per_canal, failed_canals, call>>
    /\ UNCHANGED <<server, listing>>

\* the call is made: it runs up to its first suspension
CallerRequest(url) ==
    /\ fetch.pc = "canal" /\ call.pc = "idle"
    /\ total_quota_units < MaxUnits
    /\ Install(EnterBody([Collector EXCEPT
                             !.call = NewCall(url, fetch.canal_name)]))
    /\ UNCHANGED <<failed_canals, caller_vars>>

\* the caller takes the result
CallerReturn ==
    /\ fetch.pc = "canal" /\ call.pc = "done"
    /\ call' = IdleCall
    /\ UNCHANGED <<collector_vars, caller_vars>>

CallerLeave ==
    /\ fetch.pc = "canal" /\ call.pc = "idle"
    /\ fetch' = IdleFetch
    /\ UNCHANGED <<collector_vars, call, run, server, listing>>

CallerEnd ==
    /\ run.pc \in {"reset", "loop"} /\ fetch.pc = "idle"
    /\ run' = IdleRun
    /\ UNCHANGED <<collector_vars, call, fetch>>
    /\ UNCHANGED <<server, listing>>

\* ------------------------------------------------------ channel references
\* A reference is what canais_monitorados.url_canal holds.  route: what
\* follows 'youtube.com/' ("channel", "@", "c", "user"; "" when the string is
\* no such URL, a bare identifier for instance); ident: the path segment after
\* the route (or the bare string), by its first characters and its length;
\* tail: one more path segment behind it.
CleanWords == {"videos", "about", "shorts"}

Url(route, head, len, tail) ==
    [route |-> route, ident |-> [head |-> head, len |-> len], tail |-> tail]

\* re.sub(r'/(videos|...|shorts).*$', '', url): everything from the first
\* '/<word>' on is cut, the segment after the route included when it starts
\* with one of the words
clean_youtube_url(url) ==
    IF url.route # "" /\ url.ident.head \in CleanWords
    THEN [url EXCEPT !.ident = NoIdent, !.tail = ""]
    ELSE IF url.tail \in CleanWords THEN [url EXCEPT !.tail = ""] ELSE url

is_valid_channel_id(channel_id) ==
    IF channel_id = NoIdent
    THEN FALSE
    ELSE channel_id.head = "UC" /\ channel_id.len = ChannelIdLength

\* mutant: hands the id of a /channel/ URL on as a name to look up
extract_channel_identifier_as_username(url) ==
    LET cleaned == clean_youtube_url(url)
    IN  IF cleaned.route \in {"channel", "c", "user"} /\ cleaned.ident # NoIdent
        THEN [identifier |-> cleaned.ident, id_type |-> "username"]
        ELSE IF cleaned.route = "@" /\ cleaned.ident # NoIdent
        THEN [identifier |-> cleaned.ident, id_type |-> "handle"]
        ELSE [identifier |-> NoIdent, id_type |-> "unknown"]

extract_channel_identifier(url) ==
    LET cleaned == clean_youtube_url(url)
    IN  IF cleaned.route = "channel" /\ cleaned.ident # NoIdent
           /\ is_valid_channel_id(cleaned.ident)
        THEN [identifier |-> cleaned.ident, id_type |-> "id"]
        ELSE IF cleaned.route = "@" /\ cleaned.ident # NoIdent
        THEN [identifier |-> cleaned.ident, id_type |-> "handle"]
        ELSE IF cleaned.route \in {"c", "user"} /\ cleaned.ident # NoIdent
        THEN [identifier |-> cleaned.ident, id_type |-> "username"]
        ELSE [identifier |-> NoIdent, id_type |-> "unknown"]

\* the references a roster is drawn from
References ==
    {Url("channel", "UC", ChannelIdLength, "videos"),
     Url("@", "name", 4, ""),
     Url("", "UC", ChannelIdLength, "")}

\* the id the upstream gives for a handle or a username it knows
ApiChannelId == [head |-> "UC", len |-> ChannelIdLength]

\* ----------------------------- get_canal_data / get_videos_data, by stages
\* fetch.pc is where the coroutine stands: "resolve" before get_channel_id,
\* "for_handle" / "for_username" / "info" / "search" / "details" while it awaits
\* the make_api_request of that name, "resolved" when get_channel_id has
\* returned, "returned" when get_canal_data / get_videos_data has.
InstallFetch(S) ==
    /\ Install(S)
    /\ failed_canals' = S.failed
    /\ fetch' = S.fetch

\* base_delay and the round trip are over: the outcome of the request is in
\* and handled, a whole rate window after the request was recorded
Answered(resp) ==
    /\ call.pc = "inflight"
    /\ Install(RespondBody(Later(Collector, time_window + SafetyMargin), resp))
    /\ UNCHANGED <<failed_canals, caller_vars>>

\* what an observer of the traffic notes of one request and its answer: the
\* canal of the roster it was sent for, by which coroutine and at which
\* stage, the key attached, the answer and the units the request costs
Entry(resp) ==
    [canal |-> run.index, purpose |-> fetch.purpose, stage |-> fetch.pc,
     key |-> call.key, answer |-> Answer(resp), items |-> resp.items,
     cost |-> IF call.url = "/search" THEN SearchCost ELSE DefaultCost]

\* Answered, with the request and its answer written to run.log
Observed(resp) ==
    /\ call.pc = "inflight"
    /\ Install(RespondBody(Later(Collector, time_window + SafetyMargin), resp))
    /\ run' = [run EXCEPT !.log = Append(@, Entry(resp))]
    /\ UNCHANGED <<failed_canals, fetch, server, listing>>

\* data = await self.make_api_request(url, params, canal_name)
Await(S, url, pc) ==
    EnterBody([S EXCEPT !.call = NewCall(url, S.fetch.canal_name),
                        !.fetch = [@ EXCEPT !.pc = pc]])

Taken(S) == [S EXCEPT !.call = IdleCall]

HasItems(result) == result \in {"items", "items+next"}

Resolved(S, channel_id) ==
    [S EXCEPT !.fetch = [@ EXCEPT !.pc = "resolved", !.channel_id = channel_id]]

Return(S, result) ==
    [S EXCEPT !.fetch = [@ EXCEPT !.pc = "returned", !.result = result]]

\* self.mark_canal_as_failed(url_canal); return None
ReturnFailed(S) ==
    Return([S EXCEPT !.failed = @ \cup {S.fetch.url}], "None")

get_channel_id_from_handle(S) ==
    IF all_keys_exhausted_in(S.exhausted)
    THEN Resolved(S, NoIdent)
    ELSE Await(S, "/channels", "for_handle")

get_channel_id(S, url) ==
    LET e == extract_channel_identifier(url)
    IN  IF e.identifier = NoIdent
        THEN Resolved(S, NoIdent)
        ELSE IF e.id_type = "id" /\ is_valid_channel_id(e.identifier)
        THEN Resolved(S, e.identifier)
        ELSE IF e.id_type \in {"handle", "username"}
        THEN get_channel_id_from_handle(S)
        ELSE Resolved(S, NoIdent)

\* mutant: a listing cut short by the exhaustion of the pool is an error
VideosReturn_none_when_exhausted(S) ==
    IF all_keys_exhausted_in(S.exhausted)
    THEN Return(S, "None")
    ELSE IF S.fetch.purpose = "canal"
    THEN Return(S, "data")
    ELSE Return(S, IF S.fetch.videos THEN "videos" ELSE "empty")

\* get_channel_videos returns: get_canal_data builds its dict from the list,
\* get_videos_data returns the list itself
VideosReturn(S) ==
    IF S.fetch.purpose = "canal"
    THEN Return(S, "data")
    ELSE Return(S, IF S.fetch.videos THEN "videos" ELSE "empty")

\* one round of `while True' in get_channel_videos, up to the search request
SearchPage(S) ==
    IF all_keys_exhausted_in(S.exhausted)
    THEN VideosReturn(S)
    ELSE Await(S, "/search", "search")

get_channel_videos(S) ==
    IF ~is_valid_channel_id(S.fetch.channel_id)
    THEN VideosReturn(S)
    ELSE IF all_keys_exhausted_in(S.exhausted)
    THEN VideosReturn(S)
    ELSE SearchPage(S)

\* get_channel_info up to its request; None makes get_canal_data give up
get_channel_info(S) ==
    IF ~is_valid_channel_id(S.fetch.channel_id)
    THEN ReturnFailed(S)
    ELSE Await(S, "/channels", "info")

\* get_channel_id runs up to its first suspension or to its return
GetChannelId ==
    /\ fetch.pc = "resolve"
    /\ InstallFetch(get_channel_id(Collector, fetch.url))
    /\ UNCHANGED <<run, server, listing>>

\* mutant: the by-handle lookup is the only one
ForHandleDone_without_username ==
    /\ fetch.pc = "for_handle" /\ call.pc = "done"
    /\ InstallFetch(Resolved(Taken(Collector),
                             IF HasItems(call.result) THEN ApiChannelId
                             ELSE NoIdent))
    /\ UNCHANGED <<run, server, listing>>

\* lines 413-421: the forHandle lookup is back
ForHandleDone ==
    /\ fetch.pc = "for_handle" /\ call.pc = "done"
    /\ InstallFetch(IF HasItems(call.result)
                    THEN Resolved(Taken(Collector), ApiChannelId)
                    ELSE Await(Taken(Collector), "/channels", "for_username"))
    /\ UNCHANGED <<run, server, listing>>

\* lines 421-428: the forUsername lookup is back
ForUsernameDone ==
    /\ fetch.pc = "for_username" /\ call.pc = "done"
    /\ InstallFetch(Resolved(Taken(Collector),
                             IF HasItems(call.result) THEN ApiChannelId
                             ELSE NoIdent))
    /\ UNCHANGED <<run, server, listing>>

\* lines 660-667 of get_canal_data, lines 717-721 of get_videos_data
AfterResolve ==
    /\ fetch.pc = "resolved"
    /\ InstallFetch(
         IF fetch.purpose = "canal"
         THEN IF fetch.channel_id = NoIdent
              THEN ReturnFailed(Collector)
              ELSE get_channel_info(Collector)
         ELSE IF fetch.channel_id = NoIdent
              THEN Return(Collector, "None")
              ELSE get_channel_videos(Collector))
    /\ UNCHANGED <<run, server, listing>>

\* mutant: get_canal_data goes on to the listing whatever get_channel_info gave
InfoDone_goes_on ==
    /\ fetch.pc = "info" /\ call.pc = "done"
    /\ InstallFetch(get_channel_videos(Taken(Collector)))
    /\ UNCHANGED <<run, server, listing>>

\* lines 454-469 and 667-676: the channels request of get_channel_info is back
InfoDone ==
    /\ fetch.pc = "info" /\ call.pc = "done"
    /\ InstallFetch(IF HasItems(call.result)
                    THEN get_channel_videos(Taken(Collector))
                    ELSE ReturnFailed(Taken(Collector)))
    /\ UNCHANGED <<run, server, listing>>

\* lines 535-537: the next page, or the end of the listing
NextPage(S) ==
    IF S.fetch.next
    THEN SearchPage([S EXCEPT !.fetch = [@ EXCEPT !.page = @ + 1]])
    ELSE VideosReturn(S)

\* lines 510-519: the search page is in; get_video_details up to its request
SearchDone ==
    /\ fetch.pc = "search" /\ call.pc = "done"
    /\ LET S == [Taken(Collector) EXCEPT
                   !.fetch = [@ EXCEPT !.next = (call.result = "items+next")]]
       IN  InstallFetch(IF ~HasItems(call.result)
                        THEN VideosReturn(S)
                        ELSE IF all_keys_exhausted_in(S.exhausted)
                        THEN NextPage(S)
                        ELSE Await(S, "/videos", "details"))
    /\ UNCHANGED <<run, server, listing>>

\* lines 521-537: the details are in; videos with details join the list
DetailsDone ==
    /\ fetch.pc = "details" /\ call.pc = "done"
    /\ LET S == [Taken(Collector) EXCEPT
                   !.fetch = [@ EXCEPT
                                !.videos = @ \/ HasItems(call.result)]]
       IN  InstallFetch(NextPage(S))
    /\ UNCHANGED <<run, server, listing>>

\* ------------------------------- get_channel_videos and get_video_details
\* The videos of a listing, one page at a time. A video is named by its place
\* in the listing: the k-th item of page p. The upstream knows the views of
\* every video; an item of its videos answer describes one video (of) and
\* carries its statistics.
BatchSize == MaxResults

VideoId(page, k) == page * MaxResults + k
ViewsOf(video_id) == video_id

NoDetail == [of |-> 0, view_count |-> 0]
Detail(video_id) == [of |-> video_id, view_count |-> ViewsOf(video_id)]

Nones(n) == [k \in 1 .. n |-> NoDetail]

RECURSIVE SubSeqs(_)
SubSeqs(q) ==
    IF q = << >> THEN {<< >>}
    ELSE LET rest == SubSeqs(Tail(q))
         IN  rest \cup {<<Head(q)>> \o r : r \in rest}

\* what make_api_request gives for the videos request of one batch: items
\* for some of the ids asked for, in the order asked, or nothing (None, or
\* no items), in which case the request may have exhausted the last key
BatchAnswers(batch_ids) ==
    {[items |-> q, exhausts |-> FALSE] : q \in SubSeqs(batch_ids)}
    \cup {[items |-> << >>, exhausts |-> TRUE]}

\* lines 552-580: the batches from offset i on; answers[b] is what the
\* request of batch b gave
RECURSIVE DetailsFrom(_, _, _, _)
DetailsFrom(video_ids, i, exhausted, answers) ==
    IF i >= Len(video_ids) THEN << >>
    ELSE IF exhausted THEN Nones(Len(video_ids) - i)
    ELSE LET batch_ids == SubSeq(video_ids, i + 1,
                                 Min(i + BatchSize, Len(video_ids)))
             data == answers[(i \div BatchSize) + 1]
         IN  (IF data.items # << >>
              THEN [k \in 1 .. Len(data.items) |-> Detail(data.items[k])]
              ELSE Nones(Len(batch_ids)))
             \o DetailsFrom(video_ids, i + BatchSize, data.exhausts, answers)

get_video_details(video_ids, exhausted, answers) ==
    IF exhausted THEN Nones(Len(video_ids))
    ELSE IF video_ids = << >> THEN << >>
    ELSE DetailsFrom(video_ids, 0, FALSE, answers)

\* lines 521-533: zip(data['items'], video_details), the items with details
Zipped(items, video_details) ==
    LET pairs == [k \in 1 .. Min(Len(items), Len(video_details)) |->
                    [video_id |-> items[k],
                     views_atuais |-> video_details[k].view_count,
                     of |-> video_details[k].of,
                     details |-> video_details[k] # NoDetail]]
        WithDetails(pair) == pair.details
    IN  SelectSeq(pairs, WithDetails)

\* line 687
RECURSIVE total_views(_)
total_views(videos) ==
    IF videos = << >> THEN 0
    ELSE Head(videos).views_atuais + total_views(Tail(videos))

IdleListing ==
    [pc |-> "idle", page |-> 0, items |-> << >>, next |-> FALSE,
     answer |-> [items |-> << >>, exhausts |-> FALSE],
     video_details |-> << >>, exhausted |-> FALSE, videos |-> << >>]

listing_frame == <<collector_vars, call, fetch, run, server>>

\* lines 484-488: get_channel_videos is called with a valid id, a key usable
ListingStart ==
    /\ listing.pc \in {"idle", "returned"}
    /\ listing' = [IdleListing EXCEPT !.pc = "search"]
    /\ UNCHANGED listing_frame

\* lines 508-516: the search request gave nothing, or a page without items
PageEmpty ==
    /\ listing.pc = "search"
    /\ listing' = [listing EXCEPT !.pc = "returned"]
    /\ UNCHANGED listing_frame

\* lines 508-519: the search request gave a page of n items
PageListed(n, next) ==
    /\ listing.pc = "search"
    /\ listing' = [listing EXCEPT
                     !.pc = "details",
                     !.items = [k \in 1 .. n |-> VideoId(listing.page, k)],
                     !.next = next]
    /\ UNCHANGED listing_frame

\* line 519: get_video_details is back
DetailsAnswered(data) ==
    /\ listing.pc = "details"
    /\ data \in BatchAnswers(listing.items)
    /\ listing' = [listing EXCEPT
                     !.pc = "zip",
                     !.answer = data,
                     !.exhausted = data.exhausts,
                     !.video_details =
                         get_video_details(listing.items, FALSE, <<data>>)]
    /\ UNCHANGED listing_frame

\* mutant: a page whose details request failed ends the listing
PageZipped_aborts_on_failure ==
    /\ listing.pc = "zip"
    /\ listing' = [listing EXCEPT
                     !.videos = @ \o Zipped(listing.items,
                                            listing.video_details),
                     !.pc = IF listing.next /\ ~listing.exhausted
                               /\ listing.answer.items # << >>
                            THEN "search" ELSE "returned",
                     !.page = IF listing.next /\ ~listing.exhausted
                                 /\ listing.answer.items # << >>
                              THEN @ + 1 ELSE @]
    /\ UNCHANGED listing_frame

\* lines 521-537 and 490-493: the videos with details join the list, and
\* the next page is asked for if there is one and a key is left
PageZipped ==
    /\ listing.pc = "zip"
    /\ listing' = [listing EXCEPT
                     !.videos = @ \o Zipped(listing.items,
                                            listing.video_details),
                     !.pc = IF listing.next /\ ~listing.exhausted
                            THEN "search" ELSE "returned",
                     !.page = IF listing.next /\ ~listing.exhausted
                              THEN @ + 1 ELSE @]
    /\ UNCHANGED listing_frame

\* ------------------------------------------------------ run_collection_job
RECURSIVE SeqsUpTo(_, _)
SeqsUpTo(S, n) ==
    IF n = 0 THEN {<<>>}
    ELSE LET shorter == SeqsUpTo(S, n - 1)
         IN  shorter \cup {Append(q, x) : q \in shorter, x \in S}

\* what db.get_canais_for_collection can return
Rosters == SeqsUpTo(References, MaxCanais)

total_canais == Len(run.roster)

\* mutant: the loop also stops once a canal has been marked failed
StopsLoop_after_failure == all_keys_exhausted \/ failed_canals # {}

\* line 887
StopsLoop_never == FALSE

StopsLoop == all_keys_exhausted

\* lines 872-884: the collector is reset, the roster read, the log opened;
\* a job starts when none is running, the first one or a later one
JobStart(roster) ==
    /\ run.pc \in {"idle", "finished"}
    /\ reset_for_new_collection
    /\ run' = [IdleRun EXCEPT !.pc = "loop", !.roster = roster, !.index = 1,
                              !.keys_to_reset = keys_to_reset,
                              !.coleta = <<"em_progresso">>]
    /\ UNCHANGED <<call, fetch>>
    /\ UNCHANGED <<server, listing>>

\* lines 872-883 and 976-994: get_canais_for_collection or create_coleta_log
\* raises; there is no coleta_id, the handler writes nothing and re-raises
JobFailsToStart ==
    /\ run.pc \in {"idle", "finished"}
    /\ reset_for_new_collection
    /\ run' = [IdleRun EXCEPT !.pc = "finished", !.raised = TRUE,
                              !.keys_to_reset = keys_to_reset]
    /\ UNCHANGED <<call, fetch>>
    /\ UNCHANGED <<server, listing>>

\* lines 887-893: break
LoopBreak ==
    /\ run.pc = "loop" /\ run.index <= total_canais
    /\ StopsLoop
    /\ run' = [run EXCEPT !.pc = "stats", !.broke = TRUE]
    /\ UNCHANGED <<collector_vars, call, fetch>>
    /\ UNCHANGED <<server, listing>>

\* the roster is through
LoopExit ==
    /\ run.pc = "loop" /\ run.index > total_canais
    /\ run' = [run EXCEPT !.pc = "stats"]
    /\ UNCHANGED <<collector_vars, call, fetch>>
    /\ UNCHANGED <<server, listing>>

\* mutant: keeps the current key instead of moving to the next one
get_canal_data_without_rotation(S, url_canal, canal_name) ==
    LET F == [S EXCEPT !.fetch = [IdleFetch EXCEPT !.purpose = "canal",
                                     !.url = url_canal,
                                     !.canal_name = canal_name]]
    IN  IF url_canal \in S.failed \/ all_keys_exhausted_in(S.exhausted)
        THEN Return(F, "None")
        ELSE [F EXCEPT !.fetch = [@ EXCEPT !.pc = "resolve"]]

\* lines 646-656 of get_canal_data
get_canal_data(S, url_canal, canal_name) ==
    LET F == [S EXCEPT !.fetch = [IdleFetch EXCEPT !.purpose = "canal",
                                     !.url = url_canal,
                                     !.canal_name = canal_name]]
    IN  IF url_canal \in S.failed
        THEN Return(F, "None")
        ELSE IF all_keys_exhausted_in(S.exhausted)
        THEN Return(F, "None")
        ELSE [F EXCEPT !.index = rotate_to_next_key(S.index, S.exhausted),
                       !.fetch = [@ EXCEPT !.pc = "resolve"]]


\* mutant: get_videos_data does not ask is_canal_failed
get_videos_data_without_failed_check(S, url_canal, canal_name) ==
    LET F == [S EXCEPT !.fetch = [IdleFetch EXCEPT !.purpose = "videos",
                                     !.url = url_canal,
                                     !.canal_name = canal_name]]
    IN  IF all_keys_exhausted_in(S.exhausted)
        THEN Return(F, "None")
        ELSE [F EXCEPT !.fetch = [@ EXCEPT !.pc = "resolve"]]

\* lines 709-715 of get_videos_data
get_videos_data(S, url_canal, canal_name) ==
    LET F == [S EXCEPT !.fetch = [IdleFetch EXCEPT !.purpose = "videos",
                                     !.url = url_canal,
                                     !.canal_name = canal_name]]
    IN  IF url_canal \in S.failed
        THEN Return(F, "None")
        ELSE IF all_keys_exhausted_in(S.exhausted)
        THEN Return(F, "None")
        ELSE [F EXCEPT !.fetch = [@ EXCEPT !.pc = "resolve"]]

\* lines 895-898: the next canal of the roster
ProcessCanal ==
    /\ run.pc = "loop" /\ run.index <= total_canais
    /\ ~StopsLoop
    /\ InstallFetch(get_canal_data(Collector, run.roster[run.index], "canal_a"))
    /\ run' = [run EXCEPT !.pc = "canal"]
    /\ UNCHANGED <<server, listing>>

\* what db.save_canal_data does with the dict: it returns None before it
\* touches the database when every views figure is 0, as it is for a canal
\* without videos
SaveOutcomes(videos) ==
    IF videos THEN {"saved", "zeros", "raise"} ELSE {"zeros"}


\* mutant: every snapshot get_canal_data returns is counted a success
CanalReturned_counts_every_snapshot(save) ==
    /\ run.pc = "canal" /\ fetch.pc = "returned"
    /\ save \in (IF fetch.result = "data" THEN SaveOutcomes(fetch.videos)
                 ELSE {"zeros"})
    /\ run' = [run EXCEPT
                 !.pc = "videos",
                 !.canais_sucesso = IF fetch.result = "data" THEN @ + 1 ELSE @,
                 !.canais_erro = IF fetch.result = "data" THEN @ ELSE @ + 1]
    /\ InstallFetch(get_videos_data(Collector, run.roster[run.index],
                                    "canal_a"))
    /\ UNCHANGED <<server, listing>>

\* lines 899-911: get_canal_data is back
CanalReturned(save) ==
    /\ run.pc = "canal" /\ fetch.pc = "returned"
    /\ save \in (IF fetch.result = "data" THEN SaveOutcomes(fetch.videos)
                 ELSE {"zeros"})
    /\ IF fetch.result = "data" /\ save = "raise"
       THEN /\ run' = [run EXCEPT !.pc = "loop", !.index = @ + 1,
                                  !.canais_erro = @ + 1]
            /\ fetch' = IdleFetch
            /\ UNCHANGED <<collector_vars, call>>
       ELSE /\ run' = [run EXCEPT
                         !.pc = "videos",
                         !.canais_sucesso =
                             IF fetch.result = "data" /\ save = "saved"
                             THEN @ + 1 ELSE @,
                         !.canais_erro =
                             IF fetch.result = "data" /\ save = "saved"
                             THEN @ ELSE @ + 1]
            /\ InstallFetch(get_videos_data(Collector, run.roster[run.index],
                                            "canal_a"))
    /\ UNCHANGED <<server, listing>>

\* lines 912-923: get_videos_data is back; save_videos_data and
\* update_last_collection may raise
VideosReturned(db) ==
    /\ run.pc = "videos" /\ fetch.pc = "returned"
    /\ run' = [run EXCEPT !.pc = "loop", !.index = @ + 1,
                          !.canais_erro = IF db = "raise" THEN @ + 1 ELSE @]
    /\ fetch' = IdleFetch
    /\ UNCHANGED <<collector_vars, call>>
    /\ UNCHANGED <<server, listing>>

\* lines 953-958
status(canais_sucesso, canais_erro) ==
    IF canais_erro = 0 THEN "sucesso"
    ELSE IF canais_sucesso > 0 THEN "parcial"
    ELSE "erro"

\* lines 925-994.  cleanup: db.cleanup_old_data, which runs when half the
\* roster succeeded, may raise; update: so may the update_coleta_log of line
\* 961; either exception reaches the handler of line 976, whose own
\* update_coleta_log (handler) writes "erro" with the message before the
\* exception is re-raised, or raises itself.  run.coleta is the row of
\* coletas_historico, by the statuses written to it; run.status is the last
\* status the job has written.
Finalize(cleanup, update, handler) ==
    /\ run.pc = "stats"
    /\ cleanup = "raise" => run.canais_sucesso * 2 >= total_canais
    /\ update = "raise" => cleanup = "ok"
    /\ handler = "raise" => (cleanup = "raise" \/ update = "raise")
    /\ LET escaped == cleanup = "raise" \/ update = "raise"
           written == IF ~escaped
                      THEN <<status(run.canais_sucesso, run.canais_erro)>>
                      ELSE IF handler = "ok" THEN <<"erro">> ELSE << >>
       IN  run' = [run EXCEPT
                     !.pc = "finished",
                     !.raised = escaped,
                     !.status = IF written = << >> THEN @ ELSE written[1],
                     !.coleta = @ \o written,
                     !.mensagem_erro = escaped /\ handler = "ok"]
    /\ UNCHANGED <<collector_vars, call, fetch>>
    /\ UNCHANGED <<server, listing>>

\* ------------------------------------- main.py: who starts a collection
\* server.collection_in_progress and server.last_collection_time are the two
\* globals; last_collection_time is kept as the minutes since that instant,
\* up to the cooldown, NoTime for None.  queued: the background tasks
\* added by collect_data that have not started; tasks: those that are
\* running run_collection_job; scheduler: where schedule_daily_collection
\* stands ("startup", "sleeping", "collecting" while it awaits
\* run_collection_job, "backoff" after an exception).  since_end is no
\* variable of the code: the minutes since a run_collection_job last ended,
\* kept like last_collection_time.
Cooldown == 1
NoTime == -1

IdleServer ==
    [collection_in_progress |-> FALSE, last_collection_time |-> NoTime,
     queued |-> 0, tasks |-> 0, scheduler |-> "startup",
     since_end |-> NoTime]

job_vars == <<collector_vars, call, fetch, run, listing>>

\* lines 496-516, the boolean of the pair it returns
can_start_collection ==
    /\ ~server.collection_in_progress
    /\ \/ server.last_collection_time = NoTime
       \/ server.last_collection_time >= Cooldown

\* POST /api/collect-data, lines 518-530: the job is added as a background
\* task, which starts after the response is sent; a blocked request changes
\* nothing
PostCollectData ==
    /\ server.queued + server.tasks < MaxTasks
    /\ server' = IF can_start_collection
                 THEN [server EXCEPT !.queued = @ + 1]
                 ELSE server
    /\ UNCHANGED job_vars

\* lines 863-872: a background task starts run_collection_job
TaskStart ==
    /\ server.queued > 0
    /\ server' = [server EXCEPT !.queued = @ - 1, !.tasks = @ + 1,
                                !.collection_in_progress = TRUE]
    /\ UNCHANGED job_vars

\* lines 1018-1024: the startup protection is over
SchedulerReady ==
    /\ server.scheduler = "startup"
    /\ server' = [server EXCEPT !.scheduler = "sleeping"]
    /\ UNCHANGED job_vars

\* lines 1041-1049: the hour of the daily collection has come; the check and
\* the start of the job happen without a suspension in between
ScheduledCollection ==
    /\ server.scheduler = "sleeping"
    /\ server' = IF can_start_collection
                 THEN [server EXCEPT !.scheduler = "collecting",
                                     !.collection_in_progress = TRUE]
                 ELSE server
    /\ UNCHANGED job_vars

\* mutant: the flag is cleared at the end of the try block only
JobEnds_flag_left_on_failure(who, outcome) ==
    /\ \/ who = "task" /\ server.tasks > 0
       \/ who = "scheduler" /\ server.scheduler = "collecting"
    /\ server' = [server EXCEPT
                    !.tasks = IF who = "task" THEN @ - 1 ELSE @,
                    !.scheduler = IF who = "task" THEN @
                                  ELSE IF outcome = "ok" THEN "sleeping"
                                  ELSE "backoff",
                    !.last_collection_time = IF outcome = "ok" THEN 0 ELSE @,
                    !.collection_in_progress =
                        IF outcome = "ok" THEN FALSE ELSE @,
                    !.since_end = 0]
    /\ UNCHANGED job_vars

\* lines 970-994: a run_collection_job ends, normally or with an exception;
\* who: the background task or the scheduler that awaits it
JobEnds(who, outcome) ==
    /\ \/ who = "task" /\ server.tasks > 0
       \/ who = "scheduler" /\ server.scheduler = "collecting"
    /\ server' = [server EXCEPT
                    !.tasks = IF who = "task" THEN @ - 1 ELSE @,
                    !.scheduler = IF who = "task" THEN @
                                  ELSE IF outcome = "ok" THEN "sleeping"
                                  ELSE "backoff",
                    !.last_collection_time = IF outcome = "ok" THEN 0 ELSE @,
                    !.collection_in_progress = FALSE,
                    !.since_end = 0]
    /\ UNCHANGED job_vars

\* lines 1051-1053: the sleep after a failed scheduled collection is over
BackoffOver ==
    /\ server.scheduler = "backoff"
    /\ server' = [server EXCEPT !.scheduler = "sleeping"]
    /\ UNCHANGED job_vars

\* a minute passes
Aged(minutes) ==
    IF minutes = NoTime THEN NoTime ELSE Min(minutes + 1, Cooldown)

Minute ==
    /\ server.since_end # NoTime /\ server.since_end < Cooldown
    /\ server' = [server EXCEPT !.last_collection_time = Aged(@),
                                !.since_end = Aged(@)]
    /\ UNCHANGED job_vars

\* ------------------------------------------------------------ YouTubeCollector()
Constructed(n) ==
    /\ api_keys = n
    /\ current_key_index = 0
    /\ exhausted_keys_date = << >>
    /\ rate_limiters = [i \in 0 .. (n - 1) |-> << >>]
    /\ total_quota_units = 0
    /\ quota_units_per_key = [i \in 0 .. (n - 1) |-> 0]
    /\ quota_units_per_canal = << >>
    /\ failed_canals = {}
    /\ call = IdleCall
    /\ fetch = IdleFetch
    /\ run = IdleRun
    /\ server = IdleServer
    /\ listing = IdleListing

Init == Constructed(NumKeys)

\* the key pool and the retry policy under any upstream; the clock advances
\* a whole rate window at a time, so the rate limiter never makes a call wait
Next ==
    \/ CallerReset
    \/ \E canal_name \in CanalNames : CallerCanal(canal_name)
    \/ \E url \in Urls : CallerRequest(url)
    \/ Reenter
    \/ \E resp \in Responses : Respond(resp)
    \/ CallerReturn
    \/ CallerLeave
    \/ CallerEnd
    \/ Elapse
    \/ Midnight

Spec == Init /\ [][Next]_vars

\* the rate limiter under a healthy upstream, the clock ticking
InitLimiter == Constructed(LimiterKeys)

NextLimiter ==
    \/ CallerReset
    \/ \E canal_name \in CanalNames : CallerCanal(canal_name)
    \/ CallerRequest("/channels")
    \/ AfterRateWait
    \/ \E items \in BOOLEAN : Respond(Ok(items))
    \/ CallerReturn
    \/ CallerLeave
    \/ CallerEnd
    \/ Tick

SpecLimiter == InitLimiter /\ [][NextLimiter]_vars

\* the collection job over any roster; the upstream answers, lacks the
\* item or refuses for quota.  A listing has one page here: the further
\* pages of a listing are followed in SpecFetch and SpecListing.
RunResponses ==
    {Ok(TRUE), Ok(FALSE), [Ok(TRUE) EXCEPT !.next = TRUE],
     Forbidden({}, {"quota"})}

InitRun == Constructed(RunKeys)

NextRun ==
    \/ \E roster \in Rosters : JobStart(roster)
    \/ LoopBreak
    \/ LoopExit
    \/ ProcessCanal
    \/ GetChannelId
    \/ ForHandleDone
    \/ ForUsernameDone
    \/ AfterResolve
    \/ InfoDone
    \/ SearchDone
    \/ DetailsDone
    \/ \E resp \in RunResponses : ~resp.next /\ Answered(resp)
    \/ \E save \in {"saved", "zeros", "raise"} : CanalReturned(save)
    \/ \E db \in {"ok", "raise"} : VideosReturned(db)
    \/ JobFailsToStart
    \/ \E cleanup, update, handler \in {"ok", "raise"} :
          Finalize(cleanup, update, handler)

SpecRun == InitRun /\ [][NextRun]_vars

\* ---- the triggers of main.py: requests, the scheduler, the jobs they start
InitTrigger == Constructed(NumKeys)

NextTrigger ==
    \/ PostCollectData
    \/ TaskStart
    \/ SchedulerReady
    \/ ScheduledCollection
    \/ \E who \in {"task", "scheduler"}, outcome \in {"ok", "raise"} :
          JobEnds(who, outcome)
    \/ BackoffOver
    \/ Minute

SpecTrigger == InitTrigger /\ [][NextTrigger]_vars

\* ---- the jobs that POST /api/collect-data and the scheduler start, on the
\* one collector of main.py (line 49): one job is followed request by
\* request, any other job under way is seen by what its get_canal_data does
\* to current_key_index while the first is suspended in a request
jobs_running ==
    server.tasks + (IF server.scheduler = "collecting" THEN 1 ELSE 0)

\* lines 646-656 of the get_canal_data of another job
OtherJobCanal ==
    /\ jobs_running >= 2
    /\ call.pc \in {"rate_wait", "inflight"}
    /\ ~all_keys_exhausted
    /\ current_key_index' =
           rotate_to_next_key(current_key_index, exhausted_keys_date)
    /\ UNCHANGED <<api_keys, exhausted_keys_date, rate_limiters,
                   total_quota_units, quota_units_per_key,
                   quota_units_per_canal, failed_canals, call, caller_vars>>

NextConcurrent ==
    \/ PostCollectData
    \/ TaskStart
    \/ SchedulerReady
    \/ ScheduledCollection
    \/ /\ jobs_running >= 1
       /\ \/ CallerReset
          \/ \E canal_name \in CanalNames : CallerCanal(canal_name)
          \/ CallerRequest("/channels")
          \/ \E resp \in {Ok(TRUE), Forbidden({}, {"quota"})} : Respond(resp)
          \/ CallerReturn
          \/ CallerLeave
          \/ CallerEnd
          \/ Elapse
    \/ OtherJobCanal

SpecConcurrent == Init /\ [][NextConcurrent]_vars

\* ---- scenario A: 2 keys, a roster of 3 canais that exist upstream, a data
\* store that works; the upstream refuses at most one key for quota
ScenarioAKeys == 2
ScenarioACanais == 3

Quota403 == Forbidden({}, {"quota"})

KnownReferences ==
    {Url("channel", "UC", ChannelIdLength, "videos"), Url("@", "name", 4, "")}

RostersOf(refs, n) == SeqsUpTo(refs, n) \ SeqsUpTo(refs, n - 1)

\* the upstream serves every request, with a further page while there is one
Served(resp) ==
    /\ resp \in {Ok(TRUE), [Ok(TRUE) EXCEPT !.next = TRUE]}
    /\ resp.next => (fetch.pc = "search" /\ fetch.page < MaxPages)
    /\ Observed(resp)

\* the upstream refuses the key for quota, no key having been refused before
RefusedOnce ==
    /\ exhausted_keys_date = << >>
    /\ Observed(Quota403)

\* the data store saves the snapshot of a canal that has videos with views
StoreSaves ==
    \/ fetch.result = "data" /\ fetch.videos /\ CanalReturned("saved")
    \/ ~(fetch.result = "data" /\ fetch.videos) /\ CanalReturned("zeros")

InitScenarioA == Constructed(ScenarioAKeys)

NextScenarioA ==
    \/ \E roster \in RostersOf(KnownReferences, ScenarioACanais) :
          run.pc = "idle" /\ JobStart(roster)
    \/ LoopExit
    \/ ProcessCanal
    \/ GetChannelId
    \/ ForHandleDone
    \/ AfterResolve
    \/ InfoDone
    \/ SearchDone
    \/ DetailsDone
    \/ \E resp \in RunResponses : Served(resp)
    \/ RefusedOnce
    \/ CanalReturned("saved")
    \/ VideosReturned("ok")
    \/ Finalize("ok", "ok", "ok")

SpecScenarioA == InitScenarioA /\ [][NextScenarioA]_vars

\* ---- scenarios B and C: a single key, a roster of 1 or 2 canais, a data
\* store that works; the upstream may refuse the key for quota at some
\* request, and may know no channel for a handle it is asked to look up
ScenarioBKeys == 1
ScenarioBCanais == 2

\* a lookup by handle or by username that finds no channel
UnknownHandle ==
    /\ fetch.pc \in {"for_handle", "for_username"}
    /\ Observed(Ok(FALSE))

InitScenarioB == Constructed(ScenarioBKeys)

NextScenarioB ==
    \/ \E roster \in SeqsUpTo(KnownReferences, ScenarioBCanais) \ {<<>>} :
          run.pc = "idle" /\ JobStart(roster)
    \/ LoopBreak
    \/ LoopExit
    \/ ProcessCanal
    \/ GetChannelId
    \/ ForHandleDone
    \/ ForUsernameDone
    \/ AfterResolve
    \/ InfoDone
    \/ SearchDone
    \/ DetailsDone
    \/ \E resp \in RunResponses : Served(resp)
    \/ RefusedOnce
    \/ UnknownHandle
    \/ StoreSaves
    \/ VideosReturned("ok")
    \/ Finalize("ok", "ok", "ok")

SpecScenarioB == InitScenarioB /\ [][NextScenarioB]_vars

\* ---- one job over one canal, followed request by request: the upstream
\* answers with or without items, with a further page, refuses the key for
\* quota or rejects the request (404); the data store works
FetchResponses == RunResponses \cup {[Blank EXCEPT !.status = 404]}

InitFetch == Constructed(FetchKeys)

NextFetch ==
    \/ \E roster \in RostersOf(References, 1) :
          run.pc = "idle" /\ JobStart(roster)
    \/ LoopExit
    \/ ProcessCanal
    \/ GetChannelId
    \/ ForHandleDone
    \/ ForUsernameDone
    \/ AfterResolve
    \/ InfoDone
    \/ SearchDone
    \/ DetailsDone
    \/ \E resp \in FetchResponses :
          /\ resp.next => (fetch.pc = "search" /\ fetch.page < FetchPages)
          /\ Answered(resp)
    \/ StoreSaves
    \/ VideosReturned("ok")
    \/ Finalize("ok", "ok", "ok")

SpecFetch == InitFetch /\ [][NextFetch]_vars

\* ---- the listing of get_channel_videos: pages of 1 to MaxResults videos,
\* the details of each page asked for in one batch
NextListing ==
    \/ ListingStart
    \/ PageEmpty
    \/ \E n \in 1 .. MaxResults, next \in BOOLEAN :
          /\ next => listing.page < FetchPages
          /\ PageListed(n, next)
    \/ \E data \in BatchAnswers(listing.items) : DetailsAnswered(data)
    \/ PageZipped

SpecListing == Init /\ [][NextListing]_vars

\* the retry policy under any upstream within one UTC day, the requests all
\* of unit cost, with what the scheduling guarantees: time passes, a sleeping
\* call wakes up, and every request sent is answered or times out
NextDay ==
    \/ CallerReset
    \/ \E canal_name \in CanalNames : CallerCanal(canal_name)
    \/ CallerRequest("/channels")
    \/ Reenter
    \/ \E resp \in Responses : Respond(resp)
    \/ CallerReturn
    \/ CallerLeave
    \/ CallerEnd
    \/ Elapse

FairSpec ==
    /\ Init /\ [][NextDay]_vars
    /\ WF_vars(Elapse)
    /\ WF_vars(Reenter)
    /\ WF_vars(\E resp \in Responses : Respond(resp))

\* ======================================================================
\* Properties
\* ======================================================================
Last(seq) == seq[Len(seq)]
Successes == {"items", "items+next", "no_items"}
InCall == call.pc \in {"enter", "rate_wait", "inflight"}

\* ---------------------------------------------------------------- C1
\* the keys from `from' onwards in round-robin order, `from' itself last
CyclicDistance(from, to) ==
    IF to = from THEN api_keys ELSE (to - from) % api_keys

\* the last two requests of the finished call: a quota 403, then a 200
QuotaThenOk ==
    /\ call.pc = "done"
    /\ Len(call.history) >= 2
    /\ call.history[Len(call.history) - 1].answer = "quota"
    /\ Last(call.history).answer = "ok"

C1_Returns ==
    QuotaThenOk =>
        LET A == call.history[Len(call.history) - 1].key
            B == Last(call.history).key
        IN  /\ call.result \in Successes
            /\ A \in DOMAIN exhausted_keys_date
            /\ B \notin DOMAIN exhausted_keys_date
            /\ \A k \in Keys \ DOMAIN exhausted_keys_date :
                   CyclicDistance(A, B) <= CyclicDistance(A, k)
            /\ current_key_index = B

\* the step in which the call handles a quota 403
HandlesQuota ==
    /\ Len(call'.history) = Len(call.history) + 1
    /\ Last(call'.history).answer = "quota"

C1_MarksToday ==
    HandlesQuota =>
        /\ call.key \in DOMAIN exhausted_keys_date'
        /\ exhausted_keys_date'[call.key] = today_utc

\* C1: a quota-exceeded 403 on the current key A followed by a 200 on the
\* next non-exhausted key B in round-robin order: the call returns that
\* response, the step that handles the 403 records A as exhausted on today's
\* UTC date, and current_key_index is B when the call returns.
C1_QuotaRotatesToNextKey == []C1_Returns /\ [][C1_MarksToday]_vars

C1_Witness ==
    /\ QuotaThenOk
    /\ Len(call.history) = 2
    /\ call.history[1].key # call.history[2].key
    /\ call.result = "items"
    /\ exhausted_keys_date[call.history[1].key] = today_utc

\* ---------------------------------------------------------------- C2
OnlyRateLimits(history) ==
    \A i \in DOMAIN history : history[i].answer = "ratelimit"

RateLimitsThenOk(history) ==
    /\ history # << >>
    /\ Last(history).answer = "ok"
    /\ OnlyRateLimits(SubSeq(history, 1, Len(history) - 1))

C2_Result ==
    /\ (call.pc = "done" /\ RateLimitsThenOk(call.history))
           => call.result \in Successes
    /\ (call.history # << >> /\ OnlyRateLimits(call.history)
        /\ Len(call.history) <= max_retries) => InCall

C2_Frame ==
    (call'.pc # "idle"
     /\ (OnlyRateLimits(call'.history) \/ RateLimitsThenOk(call'.history)))
        => /\ current_key_index' = current_key_index
           /\ DOMAIN exhausted_keys_date' = DOMAIN exhausted_keys_date

\* C2: a request answered k <= max_retries times in a row by a transient
\* rate-limit 403 and then by a 200: the call does not give up before the
\* 200, it eventually returns, it returns the successful response, and no
\* step of the call changes current_key_index or adds a key to the
\* exhausted set.
C2_RateLimitRetriesInPlace ==
    /\ []C2_Result
    /\ [][C2_Frame]_vars
    /\ (InCall ~> call.pc = "done")

C2_Witness ==
    /\ call.pc = "done"
    /\ Len(call.history) = max_retries + 1
    /\ RateLimitsThenOk(call.history)
    /\ call.result = "items"

\* ---------------------------------------------------------------- C3
\* C3: in every reachable state all_keys_exhausted() is true if and only if
\* every key's recorded exhaustion date is the current UTC date.
C3_AllExhaustedIffAllToday ==
    all_keys_exhausted <=>
        \A k \in Keys : /\ k \in DOMAIN exhausted_keys_date
                        /\ exhausted_keys_date[k] = today_utc

\* ---------------------------------------------------------------- C4
ResetStep == run.pc = "idle" /\ run'.pc = "reset"

C4_Reset ==
    ResetStep =>
        /\ DOMAIN exhausted_keys_date' \subseteq DOMAIN exhausted_keys_date
        /\ \A k \in DOMAIN exhausted_keys_date :
              /\ exhausted_keys_date[k] < today_utc
                    => k \notin DOMAIN exhausted_keys_date'
              /\ exhausted_keys_date[k] = today_utc
                    => /\ k \in DOMAIN exhausted_keys_date'
                       /\ exhausted_keys_date'[k] = today_utc
        /\ (\A k \in Keys : /\ k \in DOMAIN exhausted_keys_date
                            /\ exhausted_keys_date[k] < today_utc)
              => ~all_keys_exhausted'

\* C4: reset_for_new_collection removes from the exhausted set exactly the
\* keys exhausted before the current UTC date and keeps those exhausted
\* today; run on a pool whose keys were all exhausted yesterday it leaves
\* all_keys_exhausted() false.
C4_ResetClearsPastDates == [][C4_Reset]_vars

\* a reset has just cleared every key of the pool
C4_Witness ==
    /\ run.pc = "reset"
    /\ run.keys_to_reset = Keys
    /\ ~all_keys_exhausted

\* ---------------------------------------------------------------- C5
\* C5: get_wait_time() returns 0 exactly when can_make_request() is true;
\* with max_requests timestamps retained it is strictly positive.
C5_WaitZeroIffCanSend ==
    \A k \in Keys :
        (get_wait_time(rate_limiters[k]) = 0)
            <=> can_make_request(rate_limiters[k])

\* ---------------------------------------------------------------- C6
\* C6: for a full RateLimiter, once the duration get_wait_time() returns has
\* elapsed with no new request recorded, can_make_request() is true.
C6_CanSendAfterWaitTime ==
    \A k \in Keys :
        ~can_make_request(rate_limiters[k])
            => can_make_request(Shifted(rate_limiters[k],
                                        get_wait_time(rate_limiters[k])))

\* ---------------------------------------------------------------- C7
\* C7: the timestamps a key's RateLimiter retains after eviction never
\* number more than max_requests.
C7_WindowNeverExceeded ==
    \A k \in Keys :
        Len(clean_old_requests(rate_limiters[k])) <= max_requests

\* ---------------------------------------------------------------- C8
\* a youtube.com/channel/<id> reference, decorated or not, whose <id> has the
\* prefix 'UC' and 24 characters
CarriesValidId(url) ==
    /\ url.route = "channel"
    /\ url.ident.head = "UC"
    /\ url.ident.len = ChannelIdLength

C8_Step ==
    (fetch.pc = "resolve" /\ CarriesValidId(fetch.url) /\ fetch' # fetch) =>
        /\ fetch'.pc = "resolved"
        /\ fetch'.channel_id = fetch.url.ident
        /\ call = IdleCall /\ call' = IdleCall
        /\ UNCHANGED <<total_quota_units, quota_units_per_key,
                       quota_units_per_canal, rate_limiters,
                       current_key_index, exhausted_keys_date>>

C9_TerminalStatus ==
    (run.pc = "finished" /\ ~run.raised) =>
        /\ run.status = "sucesso" => run.canais_erro = 0
        /\ ((run.canais_sucesso >= 1 /\ run.canais_erro >= 1)
              \/ (run.broke /\ run.index <= total_canais))
             => run.status = "parcial"
        /\ run.canais_sucesso = 0 => run.status = "erro"

\* ---------------------------------------------------------------- C10
AtLoopTopExhausted ==
    run.pc = "loop" /\ run.index <= total_canais /\ all_keys_exhausted

\* the only step from the top of the loop is the break
C10_Stops ==
    AtLoopTopExhausted =>
        /\ run'.pc = "stats" /\ run'.broke
        /\ run'.index = run.index
        /\ run'.canais_erro = run.canais_erro
        /\ call = IdleCall /\ call' = IdleCall
        /\ fetch' = fetch
        /\ UNCHANGED collector_vars

\* from the break to the end of the run nothing is sent or counted
C10_Rest ==
    (run.pc = "stats" /\ run.broke) =>
        /\ run'.pc = "finished"
        /\ run'.canais_erro = run.canais_erro
        /\ run'.index = run.index
        /\ call = IdleCall /\ call' = IdleCall
        /\ UNCHANGED collector_vars

\* C10: at the top of an iteration with all_keys_exhausted() true the loop
\* stops: no request goes out for the canais that remain and none of them
\* is added to canais_erro.
C10_LoopStopsWhenExhausted == [][C10_Stops /\ C10_Rest]_vars

\* the loop has stopped with canais left over
C10_Witness ==
    /\ run.pc = "stats" /\ run.broke
    /\ run.index <= total_canais

\* ---------------------------------------------------------------- C11
RECURSIVE Units(_)
Units(log) == IF log = <<>> THEN 0 ELSE Head(log).cost + Units(Tail(log))

Refusals == {i \in DOMAIN run.log : run.log[i].answer = "quota"}
RefusedKeys == {run.log[i].key : i \in Refusals}
OfCanal(n, purpose) ==
    {i \in DOMAIN run.log : run.log[i].canal = n /\ run.log[i].purpose = purpose}

\* the run of scenario A is over: 3 canais, 2 keys, one key refused for
\* quota, only after get_canal_data of canal 1 and at the first request that
\* carries it past canal 1, everything else served
ScenarioA ==
    /\ run.pc = "finished"
    /\ api_keys = ScenarioAKeys /\ total_canais = ScenarioACanais
    /\ Cardinality(RefusedKeys) = 1
    /\ Refusals \cap OfCanal(1, "canal") = {}
    /\ \A i \in DOMAIN run.log :
          (run.log[i].key \in RefusedKeys /\ run.log[i].canal > 1)
              => i \in Refusals
    /\ \A i \in DOMAIN run.log \ Refusals :
          run.log[i].answer = "ok" /\ run.log[i].items

AllSucceed ==
    /\ run.canais_sucesso = ScenarioACanais /\ run.canais_erro = 0
    /\ run.status = "sucesso"
    /\ total_quota_units = Units(run.log)

\* C11 as stated: in scenario A canal 1 is served by the key that exhausts
\* (credential 1), canais 2 and 3 are served by the other key, the status is
\* "sucesso" and total_quota_units counts the requests of all three canais.
C11_ScenarioA ==
    ScenarioA =>
        LET K == CHOOSE k \in RefusedKeys : TRUE
        IN  /\ \A i \in OfCanal(1, "canal") : run.log[i].key = K
            /\ \A i \in DOMAIN run.log :
                  (run.log[i].canal > 1 /\ run.log[i].answer = "ok")
                      => run.log[i].key # K
            /\ AllSucceed

\* C11, amended: in scenario A every canal succeeds, the status is "sucesso",
\* total_quota_units counts every request sent for the three canais, and
\* every request after the refusal carries the healthy key; canal 1 is served
\* by the key after the one current when the job started, whichever key is
\* refused later.
C11_ScenarioA_Amended ==
    ScenarioA =>
        LET K == CHOOSE k \in RefusedKeys : TRUE
            at == CHOOSE i \in Refusals : TRUE
        IN  /\ \A i \in OfCanal(1, "canal") : run.log[i].key = 1
            /\ \A i \in DOMAIN run.log : i > at => run.log[i].key # K
            /\ AllSucceed

\* scenario A with the refusal in get_videos_data of canal 1
C11_Witness ==
    /\ ScenarioA
    /\ Refusals \cap OfCanal(1, "videos") # {}

\* ---------------------------------------------------------------- C12
\* the run of scenario B is over: 2 canais, 1 key, refused for quota at a
\* request sent for canal 1
ScenarioB ==
    /\ run.pc = "finished"
    /\ api_keys = ScenarioBKeys /\ total_canais = ScenarioBCanais
    /\ Refusals # {}
    /\ \A i \in Refusals : run.log[i].canal = 1

\* canal 1 is the one error of the run, the loop broke before canal 2 and
\* the status is "erro"
OnlyCanalOneFails ==
    /\ run.canais_erro = 1 /\ run.canais_sucesso = 0
    /\ run.broke /\ run.index = 2
    /\ \A i \in DOMAIN run.log : run.log[i].canal = 1
    /\ run.status = "erro"

\* the refusal answers a request get_canal_data needs before it has anything
\* to return: a lookup of the channel id or the channel's statistics
BeforeChannelInfo ==
    \A i \in Refusals :
        /\ run.log[i].purpose = "canal"
        /\ run.log[i].stage \in {"for_handle", "for_username", "info"}

\* C12 as stated: in scenario B canal 1 is counted in canais_erro, the loop
\* stops before canal 2, canal 2 is not counted in canais_erro and the status
\* is "erro".
C12_ScenarioB ==
    ScenarioB => OnlyCanalOneFails

\* C12, amended: the same, when the key is refused before get_canal_data of
\* canal 1 has the channel's statistics.
C12_ScenarioB_Amended ==
    (ScenarioB /\ BeforeChannelInfo) => OnlyCanalOneFails

\* scenario B with the refusal at the channels request of get_channel_info
C12_Witness ==
    /\ ScenarioB
    /\ \E i \in Refusals : run.log[i].stage = "info"

\* ---------------------------------------------------------------- C13
\* get_channel_id found no channel for canal n: its last lookup came back
\* without items
ResolutionFailed(n) ==
    \E i \in OfCanal(n, "canal") :
        run.log[i].stage = "for_username" /\ ~run.log[i].items

\* get_canal_data of canal n got the channel's statistics and its videos
Fetched(n) ==
    /\ \E i \in OfCanal(n, "canal") :
          run.log[i].stage = "info" /\ run.log[i].items
    /\ \E i \in OfCanal(n, "canal") :
          run.log[i].stage = "details" /\ run.log[i].items

\* the run is over, the roster has more than one canal and none twice, no
\* key was refused, the resolution failed for one canal and no request sent
\* for another canal failed: each of the others the upstream was asked about
\* was resolved and fetched
ScenarioC ==
    /\ run.pc = "finished"
    /\ total_canais >= 2
    /\ \A m, n \in 1 .. total_canais : m # n => run.roster[m] # run.roster[n]
    /\ Refusals = {}
    /\ \E bad \in 1 .. total_canais :
          /\ ResolutionFailed(bad)
          /\ \A n \in (1 .. total_canais) \ {bad} :
                OfCanal(n, "canal") # {} => Fetched(n)

CallEntered ==
    \/ call.pc = "idle" /\ call'.pc # "idle"
    \/ call.pc = "enter" /\ call'.pc # "enter"

C14_Step ==
    (all_keys_exhausted /\ CallEntered) =>
        /\ call'.pc = "done" /\ call'.result = "None"
        /\ call'.history = call.history
        /\ UNCHANGED collector_vars

\* C14: a make_api_request entered while all_keys_exhausted() is true returns
\* None at once: nothing is sent, no quota counter grows, no rate limiter
\* records a timestamp, and the current key and the exhausted keys stay as
\* they are.
C14_NoSendWhenAllExhausted == [][C14_Step]_vars

\* a call that was entered with every key exhausted has returned None
C14_Witness ==
    /\ all_keys_exhausted
    /\ call.pc = "done" /\ call.result = "None" /\ call.history = <<>>

\* ---------------------------------------------------------------- C18
\* this step handles a 403 whose message or reason says 'ratelimit'
RateLimitHandled ==
    /\ Len(call'.history) = Len(call.history) + 1
    /\ Last(call'.history).answer \in {"ratelimit", "quota+ratelimit"}

C18_Step ==
    RateLimitHandled =>
        /\ current_key_index' = current_key_index
        /\ exhausted_keys_date' = exhausted_keys_date

\* C18: the step that handles a 403 whose message or reason carries
\* 'ratelimit' never marks the current key exhausted and never moves
\* current_key_index, whatever else the payload carries.
C18_RateLimitIsTransient == [][C18_Step]_vars

\* ---------------------------------------------------------------- C19
Usable == Keys \ DOMAIN exhausted_keys_date

\* get_current_api_key, from any position of current_key_index
C19_Selection ==
    \A index \in Keys :
        LET got == get_current_api_key(index, exhausted_keys_date)
        IN  IF Usable # {}
            THEN got.key \in Usable /\ got.index = got.key
            ELSE got.key = NoKey

\* the key a call has attached to the request it is about to send or has sent
C19_Attached ==
    call.pc \in {"rate_wait", "inflight"} => call.key \in Usable

\* C19: get_current_api_key returns a key that is not in exhausted_keys_date
\* whenever there is one and None otherwise, and the key make_api_request
\* attaches to a request is not in exhausted_keys_date.
C19_CurrentKeyNotExhausted == C19_Selection /\ C19_Attached

\* a request is out on the key picked after the other one was marked
C19_Witness ==
    /\ exhausted_keys_date # << >> /\ Usable # {}
    /\ call.pc = "inflight" /\ call.history # << >>
    /\ Last(call.history).answer = "quota"
    /\ call.key \in Usable

\* ---------------------------------------------------------------- C20
\* C20: while a canal is in failed_canals, a get_canal_data or
\* get_videos_data that is running for it has already returned None: it is
\* at no stage that sends a request and no make_api_request is under way.
\* reset_for_new_collection empties failed_canals at the start of a run.
C20_FailedCanalGetsNoRequest ==
    /\ fetch.url \in failed_canals =>
          /\ fetch.pc = "returned" /\ fetch.result = "None"
          /\ call.pc = "idle"
    /\ run.pc = "loop" /\ run.index = 1 => failed_canals = {}

\* get_videos_data has returned for a canal that get_canal_data marked failed
C20_Witness ==
    /\ fetch.purpose = "videos" /\ fetch.pc = "returned"
    /\ fetch.url \in failed_canals

\* ---------------------------------------------------------------- C16
Terminal == {"sucesso", "parcial", "erro"}

\* C16: the row a run has created holds 'em_progresso' while the run is
\* under way, and when run_collection_job has returned or raised a terminal
\* status has been written to it exactly once.
C16_FinalizedExactlyOnce ==
    /\ run.pc \in {"loop", "canal", "videos", "stats"}
          => run.coleta = <<"em_progresso">>
    /\ (run.pc = "finished" /\ run.coleta # << >>)
          => /\ Len(run.coleta) = 2
             /\ run.coleta[2] \in Terminal

\* ---------------------------------------------------------------- C17
\* C17: when an exception has left run_collection_job after the row was
\* created, the row's status is "erro", written once by the handler together
\* with the exception's message.
C17_FailureIsRecorded ==
    (run.pc = "finished" /\ run.raised /\ run.coleta # << >>)
        => /\ run.coleta = <<"em_progresso", "erro">>
           /\ run.mensagem_erro

\* ---------------------------------------------------------------- C15
\* the executions of run_collection_job under way
Running ==
    server.tasks + (IF server.scheduler = "collecting" THEN 1 ELSE 0)

\* C15: at most one run_collection_job is under way at any time, however the
\* POST /api/collect-data requests and the daily scheduler interleave.
C15_SingleFlight == Running <= 1

\* ---------------------------------------------------------------- C21
\* this step handles a 403 that the code takes for quota exhaustion
QuotaHandled ==
    /\ Len(call'.history) = Len(call.history) + 1
    /\ Last(call'.history).answer \in {"quota", "quota+ratelimit"}

C21_Step ==
    /\ ~(DOMAIN exhausted_keys_date' \subseteq DOMAIN exhausted_keys_date)
          => QuotaHandled
    /\ (total_quota_units' > total_quota_units /\ ~QuotaHandled)
          => exhausted_keys_date' = exhausted_keys_date

\* C21: a key enters exhausted_keys_date only in the step that handles a
\* quota / daily-limit 403; a step that raises the quota counters without
\* handling such a 403 leaves exhausted_keys_date as it is, whatever the
\* counters have reached.
C21_OnlyUpstreamExhausts == [][C21_Step]_vars

\* a call has succeeded on the second key after the first was refused, with
\* more units counted than a search costs
C21_Witness ==
    /\ Cardinality(DOMAIN exhausted_keys_date) = 1
    /\ total_quota_units > SearchCost
    /\ call.pc = "done" /\ call.result = "items"

\* ---------------------------------------------------------------- C22
\* C22: whenever can_start_collection admits a collection after a
\* run_collection_job has ended, the cooldown has passed since that end,
\* however the job ended.
C22_CooldownAfterEveryRun ==
    (can_start_collection /\ server.since_end # NoTime)
        => server.since_end >= Cooldown

\* ---------------------------------------------------------------- C23
\* get_canal_data has returned a snapshot and the job takes it in this step
SnapshotTaken ==
    /\ run.pc = "canal" /\ fetch.pc = "returned" /\ fetch.result = "data"
    /\ run'.pc # "canal"

CountedSuccess ==
    /\ run'.canais_sucesso = run.canais_sucesso + 1
    /\ run'.canais_erro = run.canais_erro

CountedError ==
    /\ run'.canais_erro = run.canais_erro + 1
    /\ run'.canais_sucesso = run.canais_sucesso

\* C23 as stated: a canal whose get_canal_data returns a snapshot is counted
\* in canais_sucesso and not in canais_erro.
C23_SnapshotCountsAsSuccess == [][SnapshotTaken => CountedSuccess]_vars

\* C23, amended: a canal whose get_canal_data returns a snapshot is counted
\* once, in canais_sucesso or in canais_erro; it is counted in canais_erro
\* when the snapshot has no videos, since save_canal_data stores nothing
\* when every views figure is 0.
C23_Step ==
    SnapshotTaken =>
        /\ CountedSuccess \/ CountedError
        /\ ~fetch.videos => CountedError

C23_SnapshotCountedOnce == [][C23_Step]_vars

\* a snapshot with videos has been stored and its canal counted a success
C23_Witness ==
    /\ run.pc = "videos" /\ run.canais_sucesso = 1 /\ run.canais_erro = 0

\* ---------------------------------------------------------------- C24
\* the canais of the roster whose processing has started
Started ==
    IF run.pc \in {"canal", "videos"} THEN run.index
    ELSE Max(run.index - 1, 0)

\* C24: at every point of a run canais_sucesso + canais_erro is at most the
\* number of canais whose processing has started, so that no canal is
\* counted twice, also after save_videos_data or update_last_collection has
\* raised.
C24_EachCanalCountedOnce ==
    run.canais_sucesso + run.canais_erro <= Started

\* ---------------------------------------------------------------- C25
\* a request goes out in this step: the call comes to have one in flight, or
\* has had one answered and the next one, the retry, is in flight already
SendStep ==
    /\ call'.pc = "inflight"
    /\ call.pc # "inflight" \/ Len(call'.history) > Len(call.history)

CostOf(url) == IF url = "/search" THEN SearchCost ELSE DefaultCost

C25_Step ==
    /\ SendStep =>
          /\ total_quota_units' = total_quota_units + CostOf(call'.url)
          /\ quota_units_per_key' =
                [quota_units_per_key EXCEPT ![call'.key] = @ + CostOf(call'.url)]
    /\ ~SendStep =>
          \/ /\ total_quota_units' = total_quota_units
             /\ quota_units_per_key' = quota_units_per_key
          \/ /\ total_quota_units' = 0
             /\ \A k \in Keys : quota_units_per_key'[k] = 0

\* C25: every request make_api_request sends, a retry included, adds the
\* cost of its operation (100 for /search, 1 otherwise) to total_quota_units
\* and to the counter of the key it carries, and nothing else changes these
\* counters but reset_for_new_collection, which zeroes them.
C25_EverySendIsDebited == [][C25_Step]_vars

\* a /search request and its retry on the same key are both debited
C25_Witness ==
    /\ call.pc = "inflight" /\ call.url = "/search"
    /\ call.history # << >> /\ Last(call.history).answer = "ratelimit"
    /\ quota_units_per_key[call.key] = 2 * SearchCost

\* ---------------------------------------------------------------- C26
\* this step handles a 403 that says neither quota nor ratelimit, a timeout,
\* or a status other than 200 and 403
UnclassifiedHandled ==
    /\ Len(call'.history) = Len(call.history) + 1
    /\ Last(call'.history).answer \in {"forbidden", "timeout", "rejected"}

C26_Step ==
    UnclassifiedHandled =>
        /\ current_key_index' = current_key_index
        /\ exhausted_keys_date' = exhausted_keys_date

\* C26: the step that handles a generic 403, a timeout or a status that is
\* neither 200 nor 403 leaves current_key_index and exhausted_keys_date as
\* they are.
C26_UnclassifiedKeepsKey == [][C26_Step]_vars

\* a call has given up after generic 403s only, on the key it started with
C26_Witness ==
    /\ call.pc = "done" /\ call.result = "None"
    /\ Len(call.history) = max_retries + 1
    /\ \A i \in DOMAIN call.history :
          call.history[i].answer = "forbidden"
          /\ call.history[i].key = current_key_index
    /\ exhausted_keys_date = << >>

\* ---------------------------------------------------------------- C27
\* C27: rotate_to_next_key leaves current_key_index within 0..N-1 and, when
\* some key is not in exhausted_keys_date, on the first such key after the
\* previous index in cyclic order, the previous key itself coming last.
\* Checked from any position of current_key_index.
C27_RotateToNextUsable ==
    \A index \in Keys :
        LET rotated == rotate_to_next_key(index, exhausted_keys_date)
        IN  /\ rotated \in Keys
            /\ Usable # {} =>
                  /\ rotated \in Usable
                  /\ \A k \in Usable :
                        CyclicDistance(index, rotated) <= CyclicDistance(index, k)

\* get_canal_data has rotated with one key exhausted and come back to the
\* only key left
C27_Witness ==
    /\ fetch.pc = "canal" /\ call.pc = "idle"
    /\ exhausted_keys_date # << >>
    /\ Usable = {current_key_index}

\* ---------------------------------------------------------------- C28
\* this step handles a send that raised: asyncio.TimeoutError ("timeout") or
\* any other exception of the transport ("error")
TransportErrorHandled ==
    /\ Len(call'.history) = Len(call.history) + 1
    /\ Last(call'.history).answer \in {"timeout", "error"}

C28_Step ==
    TransportErrorHandled =>
        IF call.retry_count < max_retries
        THEN /\ call'.pc = "enter"
             /\ call'.retry_count = call.retry_count + 1
             /\ call'.delay = TimeoutDelay
        ELSE call'.pc = "done" /\ call'.result = "None"

\* C28: a send that fails with a network error or a timeout is retried after
\* a flat short delay while the attempt budget lasts, and make_api_request
\* fails for such an error only once the budget is used up.
C28_TransportErrorIsRetried == [][C28_Step]_vars

\* the same for a timeout alone, and what the code does with any other
\* exception: the call fails at once, whatever is left of the budget
C28_TimeoutStep ==
    /\ (TransportErrorHandled /\ Last(call'.history).answer = "timeout") =>
          IF call.retry_count < max_retries
          THEN /\ call'.pc = "enter"
               /\ call'.retry_count = call.retry_count + 1
               /\ call'.delay = TimeoutDelay
          ELSE call'.pc = "done" /\ call'.result = "None"
    /\ (TransportErrorHandled /\ Last(call'.history).answer = "error") =>
          call'.pc = "done" /\ call'.result = "None"

C28_OnlyTimeoutIsRetried == [][C28_TimeoutStep]_vars

\* a first send raised an exception other than a timeout and the call is over
C28_Witness ==
    /\ call.pc = "done" /\ call.result = "None"
    /\ Len(call.history) = 1 /\ call.history[1].answer = "error"
    /\ call.retry_count = 0

\* ---------------------------------------------------------------- C29
\* C29: a response whose status is neither 200 nor 403 ends the call at once
\* with None: it is the last request the call has sent, and the retry counter
\* stands where it stood when that request went out.
C29_OtherStatusFailsAtOnce ==
    \A i \in DOMAIN call.history :
        call.history[i].answer = "rejected" =>
            /\ i = Len(call.history)
            /\ call.pc = "done" /\ call.result = "None"
            /\ call.retry_count = i - 1

\* a call retried once after a rate limit has met a 404 or a 500 on its
\* second request and is over with two retries left
C29_Witness ==
    /\ call.pc = "done" /\ call.result = "None"
    /\ Len(call.history) = 2
    /\ call.history[1].answer = "ratelimit"
    /\ call.history[2].answer = "rejected"

\* ---------------------------------------------------------------- C30
\* the requests the running call has sent, the one in flight included
Sends == Len(call.history) + (IF call.pc = "inflight" THEN 1 ELSE 0)

\* C30: a call of make_api_request sends at most max_retries + 1 = 4
\* requests whatever the upstream answers: retry_count never exceeds
\* max_retries, every request after the first has raised it by one whichever
\* path retried (quota, rate limit, generic 403, timeout), and a call that is
\* over has sent no more than retry_count + 1.
C30_AtMostFourSends ==
    /\ call.retry_count \in 0..max_retries
    /\ Sends <= max_retries + 1
    /\ Sends <= call.retry_count + 1
    /\ call.pc = "inflight" => Sends = call.retry_count + 1
    /\ call.pc \in {"enter", "rate_wait"} => Sends = call.retry_count

\* a call is over after four requests that met a quota 403, a rate limit,
\* a generic 403 and a timeout
C30_Witness ==
    /\ call.pc = "done" /\ call.result = "None"
    /\ Len(call.history) = max_retries + 1
    /\ {"quota", "ratelimit", "forbidden", "timeout"}
          \subseteq {call.history[i].answer : i \in DOMAIN call.history}

\* ---------------------------------------------------------------- C31
\* the lookups of get_channel_id_from_handle: the make_api_request it awaits
\* with forHandle ("for_handle") and with forUsername ("for_username")
Lookups == {"for_handle", "for_username"}

C31_Step ==
    /\ (fetch'.pc = "for_handle" /\ fetch.pc # "for_handle") =>
          fetch.pc = "resolve"
    /\ (fetch'.pc = "for_username" /\ fetch.pc # "for_username") =>
          /\ fetch.pc = "for_handle"
          /\ call.pc = "done" /\ ~HasItems(call.result)
    /\ (fetch.pc = "for_handle" /\ fetch'.pc # "for_handle") =>
          \/ fetch'.pc = "for_username"
          \/ /\ fetch'.pc = "resolved" /\ fetch'.channel_id # NoIdent
             /\ HasItems(call.result)
    /\ (fetch.pc = "for_username" /\ fetch'.pc # "for_username") =>
          /\ fetch'.pc = "resolved"
          /\ fetch'.channel_id = NoIdent <=> ~HasItems(call.result)
    /\ (fetch.pc = "resolve" /\ fetch'.pc = "resolved"
          /\ extract_channel_identifier(fetch.url).id_type
                \in {"handle", "username"}) =>
          fetch'.channel_id = NoIdent /\ call' = IdleCall

\* C31: get_channel_id_from_handle issues the by-username lookup only after
\* the by-handle lookup came back without an item, issues no lookup after
\* these two, and returns None exactly when no lookup gave an item: after a
\* by-username lookup without items, or when it issued none.
C31_UsernameOnlyAfterHandle == [][C31_Step]_vars

\* the by-handle lookup found nothing, the by-username lookup found the id
C31_Witness ==
    /\ fetch.pc = "resolved" /\ fetch.channel_id = ApiChannelId
    /\ extract_channel_identifier(fetch.url).id_type = "handle"
    /\ current_key_index = 1 /\ exhausted_keys_date = << >>
    /\ total_quota_units = 2 * DefaultCost

\* ---------------------------------------------------------------- C32
\* this step takes the outcome of get_channel_info's request, which failed:
\* make_api_request gave None or a list without items
InfoFailed ==
    /\ fetch.pc = "info" /\ call.pc = "done" /\ ~HasItems(call.result)
    /\ fetch'.pc # "info"

C32_Step ==
    InfoFailed =>
        /\ fetch'.pc = "returned" /\ fetch'.result = "None"
        /\ failed_canals' = failed_canals \cup {fetch.url}
        /\ call' = IdleCall
        /\ total_quota_units' = total_quota_units

\* no search or videos request is under way for a canal marked failed
C32_NoListingForFailed ==
    fetch.url \in failed_canals => fetch.pc \notin {"search", "details"}

\* C32: when get_channel_info fails, get_canal_data returns None for that
\* canal and marks it failed without sending anything more, and no search
\* or videos request is ever sent for a canal marked failed.
C32_InfoFailureFailsCanal == []C32_NoListingForFailed /\ [][C32_Step]_vars

\* get_canal_data has given up on a canal whose id it had, the one request
\* sent being the one of get_channel_info
C32_Witness ==
    /\ fetch.purpose = "canal" /\ fetch.pc = "returned"
    /\ fetch.result = "None" /\ fetch.channel_id # NoIdent
    /\ fetch.url \in failed_canals
    /\ total_quota_units = DefaultCost

\* ---------------------------------------------------------------- C33
\* this step takes the outcome of a search or videos request of
\* get_channel_videos with every key exhausted
ExhaustedWhileListing ==
    /\ fetch.pc \in {"search", "details"} /\ call.pc = "done"
    /\ all_keys_exhausted
    /\ fetch'.pc # fetch.pc

C33_Step ==
    ExhaustedWhileListing =>
        /\ fetch'.pc = "returned"
        /\ fetch'.result = (IF fetch.purpose = "canal" THEN "data"
                            ELSE IF fetch.videos THEN "videos" ELSE "empty")
        /\ fetch'.videos = fetch.videos
        /\ call' = IdleCall
        /\ total_quota_units' = total_quota_units
        /\ failed_canals' = failed_canals

\* C33: when every key is exhausted while get_channel_videos is listing, it
\* stops, sends no further request and returns the videos it has so far as
\* its normal result: its caller gets the list, or the dict built from it,
\* and the canal is not marked failed.
C33_ExhaustionEndsListing == [][C33_Step]_vars

\* the first page gave videos with details, the request for the second page
\* exhausted the last key, and get_canal_data returned its dict
C33_Witness ==
    /\ fetch.purpose = "canal" /\ fetch.pc = "returned"
    /\ fetch.result = "data" /\ fetch.videos /\ fetch.page = 1
    /\ all_keys_exhausted

\* ---------------------------------------------------------------- C34
\* the details request of the page at hand failed: make_api_request gave
\* None, or an answer without items
BatchFailed == listing.answer.items = << >>

\* the videos of the list that are items of the page at hand
OfThisPage ==
    {k \in DOMAIN listing.videos :
        \E j \in DOMAIN listing.items :
            listing.videos[k].video_id = listing.items[j]}

C34_Details ==
    (listing.pc = "zip" /\ BatchFailed) =>
        listing.video_details = Nones(Len(listing.items))

C34_Step ==
    (listing.pc = "zip" /\ BatchFailed /\ listing'.pc # "zip") =>
        /\ listing'.videos = listing.videos
        /\ total_views(listing'.videos) = total_views(listing.videos)
        /\ (listing.next /\ ~listing.exhausted) =>
              /\ listing'.pc = "search"
              /\ listing'.page = listing.page + 1

\* C34: when the videos request of a batch fails, get_video_details gives
\* None for every id of the batch, get_channel_videos adds none of these
\* items to its list, so that the sums over the list leave them out, and it
\* goes on to the next page if there is one and a key is left.
C34_FailedBatchIsLeftOut == []C34_Details /\ [][C34_Step]_vars

\* the details of the first page failed with a key left, those of the second
\* page came, and the list holds videos of the second page only
C34_Witness ==
    /\ listing.pc = "returned" /\ listing.page = 1
    /\ listing.videos # << >>
    /\ \A k \in DOMAIN listing.videos :
          listing.videos[k].video_id > MaxResults

\* ---------------------------------------------------------------- C37
\* C37: get_video_details returns one entry per id asked for, in the order
\* asked, each entry None or the detail of that very id, and every video
\* get_channel_videos puts on its list carries the statistics of its own id,
\* also when the upstream gives details for some of the ids only.
C37_DetailsAlignedWithIds ==
    /\ listing.pc = "zip" =>
          /\ Len(listing.video_details) = Len(listing.items)
          /\ \A k \in DOMAIN listing.video_details :
                \/ listing.video_details[k] = NoDetail
                \/ listing.video_details[k].of = listing.items[k]
    /\ \A k \in DOMAIN listing.videos :
          /\ listing.videos[k].of = listing.videos[k].video_id
          /\ listing.videos[k].views_atuais
                = ViewsOf(listing.videos[k].video_id)

\* ---------------------------------------------------------------- C35
\* C35: reset_for_new_collection leaves the requests of every key's
\* RateLimiter as they are, so that the requests recorded in one run count
\* against the window in the next.
C35_ResetKeepsRateLimiters ==
    [][ResetStep => rate_limiters' = rate_limiters]_vars

\* the first request of a run waits for the window that the requests of the
\* run before have filled
C35_Witness ==
    /\ run.pc = "loop" /\ call.pc = "rate_wait"
    /\ total_quota_units = 0
    /\ Len(rate_limiters[current_key_index]) = max_requests

\* ---------------------------------------------------------------- C36
\* the sum of a counter kept per key or per canal
RECURSIVE SumOver(_, _)
SumOver(counter, names) ==
    IF names = {} THEN 0
    ELSE LET n == CHOOSE x \in names : TRUE
         IN  counter[n] + SumOver(counter, names \ {n})

\* C36: in every reachable state total_quota_units is the sum of
\* quota_units_per_key over the keys and the sum of quota_units_per_canal
\* over the canais, increment_quota_counter and reset_for_new_collection
\* keeping the three in step.
C36_CountersAgree ==
    /\ total_quota_units = SumOver(quota_units_per_key, Keys)
    /\ total_quota_units
          = SumOver(quota_units_per_canal, DOMAIN quota_units_per_canal)

\* requests have been debited to both keys
C36_Witness ==
    /\ \A k \in Keys : quota_units_per_key[k] > 0
    /\ quota_units_per_key[0] # quota_units_per_key[1]

\* ---------------------------------------------------------------- C38
\* C38: whenever a quota 403 makes mark_key_as_exhausted run, the key that
\* enters exhausted_keys_date is the key attached to the request that got
\* the 403, in every interleaving of the jobs that POST /api/collect-data
\* and the scheduler start.
C38_MarksTheKeyThatWasRefused ==
    [][QuotaHandled =>
          DOMAIN exhausted_keys_date'
              = DOMAIN exhausted_keys_date \cup {call.key}]_vars

\* ---------------------------------------------------------------- C39
\* this step is the end of a run_collection_job, by return or by exception
JobEnded ==
    \/ server'.tasks < server.tasks
    \/ server.scheduler = "collecting" /\ server'.scheduler # "collecting"

\* C39: when a run_collection_job ends, by returning or by raising,
\* collection_in_progress is false, so that the flag left by a failed run
\* never makes can_start_collection refuse a later one.
C39_FlagClearedAtEnd ==
    [][JobEnded => ~server'.collection_in_progress]_vars

\* the scheduler's job has just ended with an exception, and the flag is down
C39_Witness ==
    /\ server.scheduler = "backoff" /\ server.since_end = 0
    /\ ~server.collection_in_progress
====
